---- MODULE Spec2Model ----
(***************************************************************************)
(* Model of the phone-shop agent's remote tool client bridge               *)
(* (src/src/phone_shop_agent/mcp/fastmcp_client.py), the remote tool       *)
(* server's phone lookup (mcp/fastmcp_server.py) and the agent's tool      *)
(* functions (tools/mcp_tools.py, tools/tool.py).                          *)
(*                                                                         *)
(* Texts are sequences of tokens.  A mapping (a Python dict) is a function *)
(* from keys (strings) to token sequences.  The JSON text of a mapping is  *)
(* <<"{", k1, v1, ..., kn, vn, "}">>; every other text of the model is not *)
(* valid JSON.                                                             *)
(***************************************************************************)
EXTENDS Integers, Sequences, FiniteSets, TLC

VARIABLES
    \* PhoneShopFastMCPClient (the process-wide handle) and one call_tool
    client,      \* self.client: None, or the n-th Client object constructed
    connected,   \* self._connected
    made,        \* number of Client objects constructed so far
    pc,          \* position of the call_tool invocation
    tool,        \* tool_name of the invocation
    attempts,    \* tool-call attempts (async with self.client: call_tool) made
    used,        \* the Client object each attempt of the invocation ran on
    raised,      \* whether the latest attempt of the invocation raised
    exc,         \* the exception e of the first attempt (str(e))
    resp,        \* what the latest attempt of the invocation got from the server
    ret,         \* what the invocation returned
    calls        \* invocations started so far

clientVars == <<client, connected, made, pc, tool, attempts, used, raised, exc, resp, ret, calls>>

VARIABLES
    \* one call of a synchronous wrapper (search_phones_sync) through
    \* _run_async_safely
    loopRunning, \* whether the calling thread already runs an event loop
    wpc,         \* position of the calling thread
    worker,      \* the executor's thread running run_in_thread
    submitted,   \* whether executor.submit started the worker
    coro,        \* how the coroutine ended (once it has)
    ranOn,       \* the thread the coroutine ran on
    clock,       \* seconds since future.result(timeout=30) began to wait
    timedOut,    \* future.result raised TimeoutError
    pending,     \* the value or exception leaving the with block
    why,         \* why asyncio.run(coro) was attempted
    out,         \* what the wrapper returned to its caller
    retClock,    \* the clock when the wrapper returned
    bcalls       \* wrapper calls started so far

bridgeVars == <<loopRunning, wpc, worker, submitted, coro, ranOn, clock, timedOut,
                pending, why, out, retClock, bcalls>>

VARIABLES
    \* the remote tool server: the phones table and one get_phone_details call
    store,       \* the model names of the rows of the phones table, by id
    spc,         \* position of the server
    sQuery,      \* phone_name of the call
    sDbOk,       \* whether get_db_connection found the database file
    sOut         \* the mapping the tool returned

serverVars == <<store, spc, sQuery, sDbOk, sOut>>

VARIABLES
    \* one call of a tool function registered with the agent
    tpc,         \* position of the agent framework's call
    tname,       \* the tool function called
    targ,        \* its phone_name argument (database tools)
    tbridge,     \* how _run_async_safely ran the coroutine
    tfailed,     \* whether the operation behind the tool failed
    tdelivered,  \* whether the server's mapping reached the formatter
    tout         \* what the tool function returned

toolVars == <<tpc, tname, targ, tbridge, tfailed, tdelivered, tout>>

VARIABLES
    \* the server's compare_phones over the priced rows of the phones table
    prices,      \* the price column, by id
    years,       \* the year column, by id
    cpc,         \* position of the compare_phones call
    cPhone1,     \* its phone1 argument
    cPhone2,     \* its phone2 argument
    cOut         \* the mapping it returned

compareVars == <<prices, years, cpc, cPhone1, cPhone2, cOut>>

VARIABLES
    \* one call of PolicyVectorStore._chunk_text
    ktext,       \* the text: its length and where its '.' and its whitespace sit
    kpc,         \* position of the call
    windows,     \* the (start, end) of each pass of the while loop
    chunks       \* the chunks returned, each as the slice text[lo:hi]

chunkVars == <<ktext, kpc, windows, chunks>>

VARIABLES
    \* the policy files and the collection of PolicyVectorStore
    files,       \* the text of each policy file of the data directory
    collection,  \* the entries of the collection
    onDuplicate, \* what collection.add of the installed chromadb does with an id it holds
    loadNo,      \* add_document calls (SpecStore) or loads of the directory (SpecIndex) so far
    adds         \* the add_document calls made directly: arguments, ids, count after

indexVars == <<files, collection, onDuplicate, loadNo, adds>>

VARIABLES
    \* one policy search: _fallback_text_search called directly, or one of
    \* search_warranty_info / search_replacement_info / search_customer_support_info
    fdocs,       \* the lines of each policy file of the data directory (or Missing)
    fquery,      \* the query
    fmax,        \* max_results
    fpc,         \* position of the call
    fcall,       \* what was called, and with which document types
    fvector,     \* what the similarity search returned to the search function
    fscanned,    \* whether the keyword scan ran
    fres,        \* the list _fallback_text_search returned
    sres         \* the mapping the search function returned

searchVars == <<fdocs, fquery, fmax, fpc, fcall, fvector, fscanned, fres, sres>>

VARIABLES
    \* the tools of the weather agent: get_weather and get_current_time
    wtpc,         \* position of the call
    wfn,         \* the function called
    wcity,       \* its argument
    wsent,       \* the HTTP requests the call has issued, in order
    wgeo,        \* what the geocoding request gave
    wfc,         \* what the current-conditions request gave
    wret,        \* what the call returned, or that it raised
    wcalls,      \* calls made
    wlog         \* the outcomes of the earlier calls

weatherVars == <<wtpc, wfn, wcity, wsent, wgeo, wfc, wret, wcalls, wlog>>

VARIABLES
    \* the while loop of _chunk_text(text, chunk_size, overlap), pass by pass
    ltext,       \* the text
    lsize,       \* chunk_size
    lover,       \* overlap
    lpc,         \* position in the function
    lstart,      \* start
    lend,        \* end, as the last pass left it
    lpasses,     \* passes of the loop made
    lchunks      \* chunks

loopVars == <<ltext, lsize, lover, lpc, lstart, lend, lpasses, lchunks>>

VARIABLES
    \* the shop database: its load (database/init_db.py) and the server
    \* tools that read it (mcp/fastmcp_server.py)
    db,          \* the tables and their AUTOINCREMENT counters
    fkOn,        \* whether the SQLite of the build enforces foreign keys
    today,       \* the current date, as a day number
    dpc,         \* position of the load, or of the tool call
    druns,       \* runs of the load begun
    qcall,       \* the tool called, with its arguments
    qout         \* what it returned

dbVars == <<db, fkOn, today, dpc, druns, qcall, qout>>

VARIABLES
    \* one call of PolicyRetrievalTool.run_async
    rargs,       \* args: the query, max_results and document_type (or Absent)
    rhits,       \* what collection.query would find: the metadata of each hit
    rfails,      \* whether collection.query raises
    rpc,         \* position of the call
    rqueries,    \* number of calls of vector_store.search
    rfound,      \* search_results
    rret         \* what run_async returned

retrVars == <<rargs, rhits, rfails, rpc, rqueries, rfound, rret>>

VARIABLES
    \* the module global _fastmcp_client and the threads calling
    \* get_fastmcp_client
    gclient,     \* _fastmcp_client: None, or the n-th PhoneShopFastMCPClient
    gmade,       \* number of PhoneShopFastMCPClient objects constructed
    gpc,         \* position of each thread
    gret         \* what get_fastmcp_client returned to each thread

singletonVars == <<gclient, gmade, gpc, gret>>

VARIABLES
    \* coroutines on the shared PhoneShopFastMCPClient (client, connected,
    \* made above), interleaved at their await points
    tasks        \* the method each task runs and where it is suspended

taskVars == <<tasks>>

\* The components beside the client, the bridge, the server's lookup and
\* the tools.
laterVars == <<compareVars, chunkVars, indexVars, searchVars, weatherVars, loopVars, dbVars,
               retrVars, singletonVars, taskVars>>

vars == <<clientVars, bridgeVars, serverVars, toolVars, laterVars>>

\* What an action of one component leaves alone.
notClient == <<bridgeVars, serverVars, toolVars, laterVars>>
notBridge == <<clientVars, serverVars, toolVars, laterVars>>
notServer == <<clientVars, bridgeVars, toolVars, laterVars>>
notTools == <<bridgeVars, spc, sQuery, sDbOk, sOut, laterVars>>
notCompare == <<clientVars, bridgeVars, spc, sQuery, sDbOk, sOut, toolVars, chunkVars, indexVars, searchVars, weatherVars, loopVars, dbVars,
    retrVars, singletonVars, taskVars>>
notChunk == <<clientVars, bridgeVars, serverVars, toolVars, compareVars, indexVars, searchVars, weatherVars, loopVars, dbVars,
    retrVars, singletonVars, taskVars>>
notIndex == <<clientVars, bridgeVars, serverVars, toolVars, compareVars, chunkVars, searchVars, weatherVars, loopVars, dbVars,
    retrVars, singletonVars, taskVars>>
notWeather == <<clientVars, bridgeVars, serverVars, toolVars, compareVars, chunkVars, indexVars, searchVars, loopVars, dbVars,
    retrVars, singletonVars, taskVars>>
notLoop == <<clientVars, bridgeVars, serverVars, toolVars, compareVars, chunkVars, indexVars, searchVars, weatherVars, dbVars,
    retrVars, singletonVars, taskVars>>
notDb == <<clientVars, bridgeVars, serverVars, toolVars, compareVars, chunkVars, indexVars, searchVars, weatherVars, loopVars,
    retrVars, singletonVars, taskVars>>
notSearch == <<clientVars, bridgeVars, serverVars, toolVars, compareVars, chunkVars, indexVars, weatherVars, loopVars, dbVars,
    retrVars, singletonVars, taskVars>>
notRetr == <<clientVars, bridgeVars, serverVars, toolVars, compareVars, chunkVars, indexVars,
    searchVars, weatherVars, loopVars, dbVars, singletonVars, taskVars>>
notSingleton == <<clientVars, bridgeVars, serverVars, toolVars, compareVars, chunkVars, indexVars,
    searchVars, weatherVars, loopVars, dbVars, retrVars, taskVars>>
notTasks == <<pc, tool, attempts, used, raised, exc, resp, ret, calls, bridgeVars, serverVars,
    toolVars, compareVars, chunkVars, indexVars, searchVars, weatherVars, loopVars, dbVars,
    retrVars, singletonVars>>

----------------------------------------------------------------------------
\* Bounds of the model.
MaxCalls == 3
MaxBridgeCalls == 2
\* Seconds the model lets a worker run on after the timeout.
MaxOverrun == 2
\* Rows of the phones table.
MaxPhones == 2
\* Prices of the phones table run from 1 to MaxPrice.
MaxPrice == 2
\* Text lengths run up to MaxSlack past the lengths where the windows change.
MaxSlack == 1
\* The '.' characters and the whitespace characters of a text.
MaxDots == 2
MaxSpaces == 1
\* add_document calls, and loads of the data directory, in one behaviour.
MaxAdds == 3
MaxLoads == 3
\* Lines of a policy file, and the largest max_results.
MaxLines == 5
MaxResults == 2
\* Calls of the weather agent's tools in one behaviour.
MaxWeatherCalls == 2
\* The largest chunk_size beside the default, and the passes of the loop of
\* _chunk_text that a behaviour follows.
MaxChunk == 3
MaxPasses == 5
\* Runs of the data load on one database, and the phones of the JSON file.
MaxRuns == 2
MaxJson == 2
\* Rows of the offers table, and the largest stock of an inventory row.
MaxOffers == 2
MaxStock == 2
\* Threads calling get_fastmcp_client, and coroutines on the shared client.
MaxThreads == 3
MaxTasks == 2

None == 0

----------------------------------------------------------------------------
\* Mappings and JSON text.

EmptyMap == [k \in {} |-> <<>>]

Mapping1(k, v) == [x \in {k} |-> v]

\* The keys of the mappings of the model, in the order json.dumps writes them.
KeyOrder ==
    <<"error", "result", "results", "count", "offers", "inventory", "comparison",
      "summary", "model_name", "year", "price", "chipset_name", "ram_size",
      "storage_size", "display_size", "battery_capacity", "operating_system">>

\* The token that opens and closes a value in a JSON text.
Quote == "\""

RECURSIVE DumpPairs(_, _)
DumpPairs(m, i) ==
    IF i > Len(KeyOrder) THEN <<>>
    ELSE LET k == KeyOrder[i]
         IN (IF k \in DOMAIN m THEN <<k, Quote>> \o m[k] \o <<Quote>> ELSE <<>>)
                \o DumpPairs(m, i + 1)

\* json.dumps of a mapping (what the server's transport puts into
\* content[0].text for a tool that returns a dict).
JsonDumps(m) == <<"{">> \o DumpPairs(m, 1) \o <<"}">>

SetMin(S) == CHOOSE x \in S : \A y \in S : x <= y

\* The parse of the pairs of a JSON text from position i on: whether the text
\* is well formed up to its closing brace, and the mapping read.
RECURSIVE ParsePairs(_, _, _)
ParsePairs(t, i, acc) ==
    IF i > Len(t) THEN [ok |-> FALSE, map |-> EmptyMap]
    ELSE IF i = Len(t) THEN [ok |-> t[i] = "}", map |-> acc]
    ELSE IF t[i] \in {"{", "}", Quote} \/ t[i + 1] # Quote
    THEN [ok |-> FALSE, map |-> EmptyMap]
    ELSE LET closing == {j \in (i + 2)..Len(t) : t[j] = Quote}
         IN  IF closing = {} THEN [ok |-> FALSE, map |-> EmptyMap]
             ELSE LET j == SetMin(closing)
                      v == SubSeq(t, i + 2, j - 1)
                  IN  ParsePairs(t, j + 1,
                          [k \in DOMAIN acc \cup {t[i]} |-> IF k = t[i] THEN v ELSE acc[k]])

\* Whether json.loads accepts the text (otherwise: json.JSONDecodeError).
IsJsonObject(t) ==
    /\ Len(t) >= 2
    /\ t[1] = "{"
    /\ ParsePairs(t, 2, EmptyMap).ok

\* json.loads of a text it accepts.
JsonLoads(t) == ParsePairs(t, 2, EmptyMap).map

----------------------------------------------------------------------------
\* PhoneShopFastMCPClient: ensure_connected and call_tool.

ToolNames == {"search_phones", "get_phone_details"}

\* str(e) of the exceptions the transport raises.
ExcMsgs == {"Connection closed", "Tool call timed out"}

\* Mappings a server tool returns (a result, or its own error mapping).
ServerMaps ==
    { Mapping1("results", <<"r">>),
      [k \in {"results", "count"} |-> IF k = "count" THEN <<"1">> ELSE <<"r">>],
      Mapping1("error", <<"Database not found">>) }

\* Texts that json.loads rejects.
NonJsonTexts == { <<"oops">>, <<"{", "results">> }

NoResp == [kind |-> "none", text |-> <<>>, msg |-> ""]

\* What one `async with self.client: await self.client.call_tool(...)` yields:
\* an exception, a result without content, content[0] with a text, or
\* content[0] without a text attribute (text holds str(content)).
Responses ==
    { [kind |-> "raise", text |-> <<>>, msg |-> e] : e \in ExcMsgs }
    \cup { [kind |-> "empty", text |-> <<>>, msg |-> ""] }
    \cup { [kind |-> "text", text |-> JsonDumps(m), msg |-> ""] : m \in ServerMaps }
    \cup { [kind |-> "text", text |-> t, msg |-> ""] : t \in NonJsonTexts }
    \cup { [kind |-> "notext", text |-> <<"ImageContent()">>, msg |-> ""] }

NoRet == [kind |-> "none", map |-> EmptyMap]
Returned(m) == [kind |-> "dict", map |-> m]
Raised == [kind |-> "raise", map |-> EmptyMap]

\* ensure_connected without its except clause: a failed ping leaves the method.
ensure_connected_uncaught(h, ping) ==
    IF ~h.connected \/ h.client = None
    THEN IF ping
         THEN [client |-> h.made + 1, connected |-> TRUE, made |-> h.made + 1,
               ok |-> TRUE, escaped |-> FALSE]
         ELSE [client |-> h.made + 1, connected |-> h.connected, made |-> h.made + 1,
               ok |-> FALSE, escaped |-> TRUE]
    ELSE [client |-> h.client, connected |-> h.connected, made |-> h.made,
          ok |-> TRUE, escaped |-> FALSE]

\* ensure_connected on the handle h; ping says whether Client(...) and the
\* ping succeed.  escaped: an exception left the method (the except clause
\* catches every Exception, so none does).
ensure_connected(h, ping) ==
    IF ~h.connected \/ h.client = None
    THEN IF ping
         THEN [client |-> h.made + 1, connected |-> TRUE, made |-> h.made + 1,
               ok |-> TRUE, escaped |-> FALSE]
         ELSE [client |-> None, connected |-> FALSE, made |-> h.made + 1,
               ok |-> FALSE, escaped |-> FALSE]
    ELSE [client |-> h.client, connected |-> h.connected, made |-> h.made,
          ok |-> TRUE, escaped |-> FALSE]

\* ParseContent reporting every response that is not JSON as an error.
ParseContent_strict(r) ==
    IF r.kind = "text" /\ IsJsonObject(r.text) THEN JsonLoads(r.text)
    ELSE IF r.kind \in {"text", "notext"}
    THEN Mapping1("error", <<"Malformed response from tool">>)
    ELSE Mapping1("error", <<"No content returned from tool">>)

\* Lines 59-72 (and 85-95): the mapping made of a result that was returned.
ParseContent(r) ==
    CASE r.kind = "text" ->
            IF IsJsonObject(r.text) THEN JsonLoads(r.text)
            ELSE Mapping1("result", r.text)
      [] r.kind = "notext" -> Mapping1("result", r.text)
      [] OTHER -> Mapping1("error", <<"No content returned from tool">>)

\* The state of one invocation, as a record.
Cur ==
    [client |-> client, connected |-> connected, made |-> made, pc |-> pc,
     attempts |-> attempts, used |-> used, raised |-> raised, exc |-> exc,
     resp |-> resp, ret |-> ret]

WithHandle(s, r) ==
    [s EXCEPT !.client = r.client, !.connected = r.connected, !.made = r.made]

\* Line 52 without line 53: the attempt is made whatever ensure_connected said.
call_tool_connect_proceed(s, ping) ==
    LET r == ensure_connected(s, ping)
        t == WithHandle(s, r)
    IN  IF r.escaped THEN [t EXCEPT !.ret = Raised, !.pc = "done"]
        ELSE [t EXCEPT !.pc = "first"]

\* Line 52-53: connect before the first attempt.
call_tool_connect(s, ping) ==
    LET r == ensure_connected(s, ping)
        t == WithHandle(s, r)
    IN  IF r.escaped THEN [t EXCEPT !.ret = Raised, !.pc = "done"]
        ELSE IF ~r.ok
        THEN [t EXCEPT !.ret = Returned(Mapping1("error", <<"Failed to connect to FastMCP server">>)),
                       !.pc = "done"]
        ELSE [t EXCEPT !.pc = "first"]

\* The first attempt with lines 76-77 left out: the handle is kept.
call_tool_first_keep(s, r) ==
    LET t == [s EXCEPT !.attempts = s.attempts + 1, !.used = Append(s.used, s.client),
                       !.resp = r]
    IN  IF r.kind = "raise"
        THEN [t EXCEPT !.raised = TRUE, !.exc = r.msg, !.pc = "reconnect"]
        ELSE [t EXCEPT !.raised = FALSE, !.ret = Returned(ParseContent(r)), !.pc = "done"]

\* Lines 55-77: the first attempt; an exception drops the handle.
call_tool_first(s, r) ==
    LET t == [s EXCEPT !.attempts = s.attempts + 1, !.used = Append(s.used, s.client),
                       !.resp = r]
    IN  IF r.kind = "raise"
        THEN [t EXCEPT !.raised = TRUE, !.exc = r.msg, !.connected = FALSE,
                       !.client = None, !.pc = "reconnect"]
        ELSE [t EXCEPT !.raised = FALSE, !.ret = Returned(ParseContent(r)), !.pc = "done"]

\* Lines 80-81, 96-99: reconnect inside the handler's own try.
call_tool_reconnect(s, ping) ==
    LET r == ensure_connected(s, ping)
        t == WithHandle(s, r)
    IN  IF r.escaped \/ ~r.ok
        THEN [t EXCEPT !.ret = Returned(Mapping1("error", <<s.exc>>)), !.pc = "done"]
        ELSE [t EXCEPT !.pc = "retry"]

\* Lines 82-99: the second attempt; its exception is only logged.
call_tool_retry(s, r) ==
    LET t == [s EXCEPT !.attempts = s.attempts + 1, !.used = Append(s.used, s.client),
                       !.resp = r]
    IN  IF r.kind = "raise"
        THEN [t EXCEPT !.raised = TRUE, !.ret = Returned(Mapping1("error", <<s.exc>>)),
                       !.pc = "done"]
        ELSE [t EXCEPT !.raised = FALSE, !.ret = Returned(ParseContent(r)), !.pc = "done"]

Become(s) ==
    /\ client' = s.client
    /\ connected' = s.connected
    /\ made' = s.made
    /\ pc' = s.pc
    /\ attempts' = s.attempts
    /\ used' = s.used
    /\ raised' = s.raised
    /\ exc' = s.exc
    /\ resp' = s.resp
    /\ ret' = s.ret

ClientInit ==
    /\ client = None
    /\ connected = FALSE
    /\ made = 0
    /\ pc = "idle"
    /\ tool = "search_phones"
    /\ attempts = 0
    /\ used = <<>>
    /\ raised = FALSE
    /\ exc = ""
    /\ resp = NoResp
    /\ ret = NoRet
    /\ calls = 0

\* A caller awaits client.call_tool(tool_name, arguments).
Invoke ==
    /\ UNCHANGED notClient
    /\ pc = "idle"
    /\ calls < MaxCalls
    /\ \E t \in ToolNames : tool' = t
    /\ calls' = calls + 1
    /\ pc' = "connect"
    /\ attempts' = 0
    /\ used' = <<>>
    /\ raised' = FALSE
    /\ exc' = ""
    /\ resp' = NoResp
    /\ ret' = NoRet
    /\ UNCHANGED <<client, connected, made>>

Connect ==
    /\ UNCHANGED notClient
    /\ pc = "connect"
    /\ \E ping \in BOOLEAN : Become(call_tool_connect(Cur, ping))
    /\ UNCHANGED <<tool, calls>>

FirstAttempt ==
    /\ UNCHANGED notClient
    /\ pc = "first"
    /\ \E r \in Responses : Become(call_tool_first(Cur, r))
    /\ UNCHANGED <<tool, calls>>

Reconnect ==
    /\ UNCHANGED notClient
    /\ pc = "reconnect"
    /\ \E ping \in BOOLEAN : Become(call_tool_reconnect(Cur, ping))
    /\ UNCHANGED <<tool, calls>>

RetryAttempt ==
    /\ UNCHANGED notClient
    /\ pc = "retry"
    /\ \E r \in Responses : Become(call_tool_retry(Cur, r))
    /\ UNCHANGED <<tool, calls>>

\* The invocation hands ret to its caller.
Return ==
    /\ UNCHANGED notClient
    /\ pc = "done"
    /\ pc' = "idle"
    /\ UNCHANGED <<client, connected, made, tool, attempts, used, raised, exc, resp, ret, calls>>

ClientNext == Invoke \/ Connect \/ FirstAttempt \/ Reconnect \/ RetryAttempt \/ Return

----------------------------------------------------------------------------
\* _run_async_safely and the synchronous wrappers.

\* future.result(timeout=30)
Timeout == 30

NoOutcome == [kind |-> "none", exc |-> "", msg |-> "", value |-> <<>>]
Ret(v) == [kind |-> "return", exc |-> "", msg |-> "", value |-> v]
Raise(c, m) == [kind |-> "raise", exc |-> c, msg |-> m, value |-> <<>>]

\* How a coroutine handed to _run_async_safely can end: it returns its
\* string, or raises (a KeyError while formatting, a RuntimeError).
CoroOutcomes ==
    { Ret(<<"Found 1 phone(s):">>),
      Raise("KeyError", "'model_name'"),
      Raise("RuntimeError", "Event loop stopped before Future completed.") }

\* Line 374: the except clause of _run_async_safely catches RuntimeError only.
CaughtAsRuntimeError(o) == o.kind = "raise" /\ o.exc = "RuntimeError"

\* Line 376: asyncio.run(coro) on the calling thread.  With a loop running
\* there it raises RuntimeError; otherwise the coroutine runs and ends as co.
asyncio_run(lr, co) ==
    IF lr THEN Raise("RuntimeError", "asyncio.run() cannot be called from a running event loop")
    ELSE co

\* A call without the try / except around it.
CatchAll_none(prefix, o) == o

\* try: return <call> / except Exception as e: return f"<prefix>{str(e)}"
CatchAll(prefix, o) ==
    IF o.kind = "raise" THEN Ret(<<prefix, o.msg>>) ELSE o

\* Lines 378-417: the synchronous wrappers, applied to the outcome of
\* _run_async_safely.
search_phones_sync(o) == CatchAll("Error searching phones: ", o)
get_phone_details_sync(o) == CatchAll("Error getting phone details: ", o)
get_phone_offers_sync(o) == CatchAll("Error getting offers: ", o)
compare_phones_sync(o) == CatchAll("Error comparing phones: ", o)
check_inventory_sync(o) == CatchAll("Error checking inventory: ", o)

\* _run_async_safely from call to outcome: lr, whether a loop runs on the
\* calling thread; sub, whether submit started the worker; late, whether
\* the worker was still running at the timeout; co, how the coroutine ends.
run_async_safely(lr, sub, late, co) ==
    IF ~lr THEN asyncio_run(lr, co)
    ELSE LET p == IF ~sub THEN Raise("RuntimeError", "can't start new thread")
                  ELSE IF late THEN Raise("TimeoutError", "")
                  ELSE co
         IN  IF CaughtAsRuntimeError(p) THEN asyncio_run(lr, co) ELSE p

BridgeInit ==
    /\ loopRunning = FALSE
    /\ wpc = "idle"
    /\ worker = "none"
    /\ submitted = FALSE
    /\ coro = NoOutcome
    /\ ranOn = "none"
    /\ clock = 0
    /\ timedOut = FALSE
    /\ pending = NoOutcome
    /\ why = "none"
    /\ out = NoOutcome
    /\ retClock = 0
    /\ bcalls = 0

\* The agent framework calls search_phones_sync(...).
SyncCall ==
    /\ UNCHANGED notBridge
    /\ wpc = "idle"
    /\ bcalls < MaxBridgeCalls
    /\ \E lr \in BOOLEAN : loopRunning' = lr
    /\ wpc' = "try"
    /\ worker' = "none"
    /\ submitted' = FALSE
    /\ coro' = NoOutcome
    /\ ranOn' = "none"
    /\ clock' = 0
    /\ timedOut' = FALSE
    /\ pending' = NoOutcome
    /\ why' = "none"
    /\ out' = NoOutcome
    /\ retClock' = 0
    /\ bcalls' = bcalls + 1

\* Line 359: asyncio.get_running_loop() raises RuntimeError without a loop.
GetRunningLoop ==
    /\ UNCHANGED notBridge
    /\ wpc = "try"
    /\ IF loopRunning
       THEN wpc' = "submit" /\ why' = why
       ELSE wpc' = "asyncio_run" /\ why' = "no running loop"
    /\ UNCHANGED <<loopRunning, worker, submitted, coro, ranOn, clock, timedOut,
                   pending, out, retClock, bcalls>>

\* Lines 370-371: executor.submit(run_in_thread) starts the worker thread, or
\* raises RuntimeError when no thread can be started.
Submit ==
    /\ UNCHANGED notBridge
    /\ wpc = "submit"
    /\ \E ok \in BOOLEAN :
          IF ok
          THEN /\ worker' = "running"
               /\ submitted' = TRUE
               /\ wpc' = "waiting"
               /\ pending' = pending
          ELSE /\ worker' = worker
               /\ submitted' = FALSE
               /\ wpc' = "exiting"
               /\ pending' = Raise("RuntimeError", "can't start new thread")
    /\ UNCHANGED <<loopRunning, coro, ranOn, clock, timedOut, why, out, retClock, bcalls>>

\* A second passes while the worker runs.
Tick ==
    /\ UNCHANGED notBridge
    /\ worker = "running"
    /\ \/ wpc = "waiting" /\ clock < Timeout
       \/ wpc = "exiting" /\ clock < Timeout + MaxOverrun
    /\ clock' = clock + 1
    /\ UNCHANGED <<loopRunning, wpc, worker, submitted, coro, ranOn, timedOut,
                   pending, why, out, retClock, bcalls>>

\* Lines 361-368: run_in_thread ends: the coroutine returned or raised.
WorkerFinish ==
    /\ UNCHANGED notBridge
    /\ worker = "running"
    /\ \E co \in CoroOutcomes : coro' = co
    /\ worker' = "done"
    /\ ranOn' = "worker"
    /\ UNCHANGED <<loopRunning, wpc, submitted, clock, timedOut, pending, why, out,
                   retClock, bcalls>>

\* Line 372: future.result returns the worker's value or raises its exception.
FutureResult ==
    /\ UNCHANGED notBridge
    /\ wpc = "waiting"
    /\ worker = "done"
    /\ pending' = coro
    /\ wpc' = "exiting"
    /\ UNCHANGED <<loopRunning, worker, submitted, coro, ranOn, clock, timedOut, why,
                   out, retClock, bcalls>>

\* Line 372: future.result raises TimeoutError after 30 seconds.
FutureTimeout ==
    /\ UNCHANGED notBridge
    /\ wpc = "waiting"
    /\ worker = "running"
    /\ clock = Timeout
    /\ timedOut' = TRUE
    /\ pending' = Raise("TimeoutError", "")
    /\ wpc' = "exiting"
    /\ UNCHANGED <<loopRunning, worker, submitted, coro, ranOn, clock, why, out,
                   retClock, bcalls>>

\* Line 370: leaving `with ThreadPoolExecutor() as executor` calls
\* executor.shutdown(wait=True), which joins the worker thread; then the
\* pending value is returned, or the pending exception reaches line 374.
ExecutorExit ==
    /\ UNCHANGED notBridge
    /\ wpc = "exiting"
    /\ worker # "running"
    /\ IF CaughtAsRuntimeError(pending)
       THEN /\ wpc' = "asyncio_run"
            /\ why' = "RuntimeError caught"
            /\ UNCHANGED <<out, retClock>>
       ELSE /\ wpc' = "returned"
            /\ out' = search_phones_sync(pending)
            /\ retClock' = clock
            /\ why' = why
    /\ UNCHANGED <<loopRunning, worker, submitted, coro, ranOn, clock, timedOut,
                   pending, bcalls>>

\* Line 376: asyncio.run(coro) on the calling thread.
AsyncioRun ==
    /\ UNCHANGED notBridge
    /\ wpc = "asyncio_run"
    /\ \E co \in CoroOutcomes :
          /\ (coro # NoOutcome => co = coro)
          /\ out' = search_phones_sync(asyncio_run(loopRunning, co))
          /\ IF loopRunning
             THEN UNCHANGED <<coro, ranOn>>
             ELSE coro' = co /\ ranOn' = "caller"
    /\ wpc' = "returned"
    /\ retClock' = clock
    /\ UNCHANGED <<loopRunning, worker, submitted, clock, timedOut, pending, why, bcalls>>

\* The wrapper hands out to the agent framework.
SyncReturn ==
    /\ UNCHANGED notBridge
    /\ wpc = "returned"
    /\ wpc' = "idle"
    /\ UNCHANGED <<loopRunning, worker, submitted, coro, ranOn, clock, timedOut,
                   pending, why, out, retClock, bcalls>>

BridgeNext ==
    \/ SyncCall
    \/ GetRunningLoop
    \/ Submit
    \/ Tick
    \/ WorkerFinish
    \/ FutureResult
    \/ FutureTimeout
    \/ ExecutorExit
    \/ AsyncioRun
    \/ SyncReturn

----------------------------------------------------------------------------
\* Claims about _run_async_safely.

\* The step-by-step run of the wrapper ends as run_async_safely computes.
BridgeAgreesWithSummary ==
    (wpc = "returned" /\ coro # NoOutcome)
        => out = search_phones_sync(run_async_safely(loopRunning, submitted, timedOut, coro))

\* C3: when the calling thread runs an event loop and the worker has not
\* finished within the timeout, the call is abandoned: the wrapper returns
\* an error string at the timeout (30 seconds after it began to wait),
\* without waiting for the worker's coroutine to finish.
C3_AbandonedAtTimeout ==
    (wpc = "returned" /\ timedOut)
        => /\ out.kind = "return"
           /\ out.value[1] = "Error searching phones: "
           /\ retClock = Timeout

\* What does hold: a timed-out call returns an error string, after the
\* worker has ended.
C3_TimedOutReturnsAfterWorker ==
    (wpc = "returned" /\ timedOut)
        => /\ out = Ret(<<"Error searching phones: ", "">>)
           /\ worker = "done"
           /\ retClock >= Timeout

\* C4: where the coroutine runs is chosen from the state of the calling
\* thread alone: asyncio.run on the calling thread is attempted only when no
\* event loop runs there, never because the coroutine or the worker thread
\* raised; with a loop running the coroutine runs on the worker thread.
C4_PlacementByCallerOnly ==
    /\ (wpc = "asyncio_run" => ~loopRunning /\ why = "no running loop")
    /\ (ranOn = "worker" => loopRunning)
    /\ (ranOn = "caller" => ~loopRunning)

----------------------------------------------------------------------------
\* The remote tool server: the phones table and get_phone_details.

\* A model name is a sequence of characters.  "A" is the upper case of "a".
PhoneNames == { <<"a">>, <<"A">>, <<"a", "b">>, <<"b">> }

\* phone_name arguments: the names, and the empty string.
QueryNames == PhoneNames \cup { <<>> }

Lower(c) == IF c = "A" THEN "a" ELSE c

\* SQLite's  s LIKE '%' || pat || '%'  for a pattern without wildcards: pat
\* occurs in s, letters compared without regard to case.
Like(pat, s) ==
    \E k \in 0..(Len(s) - Len(pat)) :
        \A j \in 1..Len(pat) : Lower(s[k + j]) = Lower(pat[j])

\* A row of the phones table (model_name is UNIQUE), joined with its
\* features and inventory.
Row(n) ==
    [model_name |-> n, year |-> <<"2023">>, price |-> <<"799.0">>,
     chipset_name |-> <<"Chip">>, ram_size |-> <<"8GB">>, storage_size |-> <<"128GB">>,
     display_size |-> <<"6.1 inches">>, battery_capacity |-> <<"4000 mAh">>,
     operating_system |-> <<"OS">>]

PhoneKeys ==
    {"model_name", "year", "price", "chipset_name", "ram_size", "storage_size",
     "display_size", "battery_capacity", "operating_system"}

\* The tables the data load can leave: rows with distinct model names.
Stores ==
    UNION { { t \in [1..n -> PhoneNames] : \A i, j \in 1..n : t[i] = t[j] => i = j }
            : n \in 0..MaxPhones }

\* Lines 35-50: the row as a dict.
format_phone_dict(row) == [k \in PhoneKeys |-> row[k]]

\* The rows the WHERE clause of line 151 selects, by position (id).
MatchingRows(st, phone_name) == {i \in DOMAIN st : Like(phone_name, st[i])}

\* Lines 127-177: get_phone_details.  fetchone() takes the first group of
\* GROUP BY p.id, the matching row of the lowest id.
get_phone_details(st, phone_name, dbOk) ==
    IF ~dbOk THEN Mapping1("error", <<"Database not found: None">>)
    ELSE LET rows == MatchingRows(st, phone_name)
         IN  IF rows = {}
             THEN Mapping1("error", <<"Phone '">> \o phone_name \o <<"' not found">>)
             ELSE format_phone_dict(Row(st[SetMin(rows)]))

ServerIdle ==
    /\ spc = "ready"
    /\ sQuery = <<>>
    /\ sDbOk = TRUE
    /\ sOut = EmptyMap

ServerInit ==
    /\ store \in Stores
    /\ ServerIdle

\* A client calls the tool get_phone_details(phone_name).
GetPhoneDetails ==
    /\ UNCHANGED notServer
    /\ spc = "ready"
    /\ \E n \in QueryNames, ok \in BOOLEAN :
          /\ sQuery' = n
          /\ sDbOk' = ok
          /\ sOut' = get_phone_details(store, n, ok)
    /\ spc' = "done"
    /\ store' = store

\* The mapping is sent; the server waits for the next call.
ServerReply ==
    /\ UNCHANGED notServer
    /\ spc = "done"
    /\ spc' = "ready"
    /\ UNCHANGED <<store, sQuery, sDbOk, sOut>>

ServerNext == GetPhoneDetails \/ ServerReply

----------------------------------------------------------------------------
\* Claims about get_phone_details.

\* C9: for every model name N present in the phones table,
\* get_phone_details(N) returns a mapping whose model_name is exactly N,
\* also when other phones have model names that contain N.
C9_DetailsOfExactName ==
    (spc = "done" /\ sDbOk /\ \E i \in DOMAIN store : store[i] = sQuery)
        => /\ "model_name" \in DOMAIN sOut
           /\ sOut["model_name"] = sQuery

----------------------------------------------------------------------------
\* The coroutines behind the database tools (fastmcp_client.py, 128-349).
\* Each takes the mapping call_tool returned.  The strings they build are
\* token sequences; the pictographs of the source are left out of the tokens.

HasKey(m, k) == k \in DOMAIN m

\* dict.get(k, []) / dict.get(k, {})
Get(m, k) == IF k \in DOMAIN m THEN m[k] ELSE <<>>

\* The keys lines 176-183 read, in that order.
DetailKeys ==
    <<"model_name", "year", "price", "chipset_name", "ram_size", "storage_size",
      "display_size", "battery_capacity", "operating_system">>

\* Lines 128-161.
search_phones_fastmcp(result) ==
    IF HasKey(result, "error")
    THEN Ret(<<"Error searching phones: ">> \o result["error"])
    ELSE IF HasKey(result, "results") /\ result["results"] # <<>>
    THEN Ret(<<"Found phone(s):", "\n">> \o result["results"])
    ELSE Ret(<<"No phones found matching your criteria.">>)

\* get_phone_details_fastmcp without the test of line 169.
get_phone_details_fastmcp_unchecked(phone_name, result) ==
    IF result = EmptyMap
    THEN Ret(<<"Phone '">> \o phone_name \o <<"' not found.">>)
    ELSE LET missing == {i \in DOMAIN DetailKeys : ~HasKey(result, DetailKeys[i])}
         IN  IF missing # {}
             THEN Raise("KeyError", DetailKeys[SetMin(missing)])
             ELSE Ret(<<"**">> \o result["model_name"] \o <<"** (">> \o result["year"]
                        \o <<")", "\n", "\n", "**", "Price:", "** $">> \o result["price"]
                        \o <<"\n", "**Chipset:** ">> \o result["chipset_name"]
                        \o <<"\n", "**RAM:** ">> \o result["ram_size"]
                        \o <<"\n", "**Storage:** ">> \o result["storage_size"]
                        \o <<"\n", "**Display:** ">> \o result["display_size"]
                        \o <<"\n", "**Battery:** ">> \o result["battery_capacity"]
                        \o <<"\n", "**OS:** ">> \o result["operating_system"]
                        \o <<"\n">>)

\* Lines 163-211, for a phone without features, stock and offers.
get_phone_details_fastmcp(phone_name, result) ==
    IF HasKey(result, "error")
    THEN Ret(<<"Error getting phone details: ">> \o result["error"])
    ELSE IF result = EmptyMap
    THEN Ret(<<"Phone '">> \o phone_name \o <<"' not found.">>)
    ELSE LET missing == {i \in DOMAIN DetailKeys : ~HasKey(result, DetailKeys[i])}
         IN  IF missing # {}
             THEN Raise("KeyError", DetailKeys[SetMin(missing)])
             ELSE Ret(<<"**">> \o result["model_name"] \o <<"** (">> \o result["year"]
                        \o <<")", "\n", "\n", "**", "Price:", "** $">> \o result["price"]
                        \o <<"\n", "**Chipset:** ">> \o result["chipset_name"]
                        \o <<"\n", "**RAM:** ">> \o result["ram_size"]
                        \o <<"\n", "**Storage:** ">> \o result["storage_size"]
                        \o <<"\n", "**Display:** ">> \o result["display_size"]
                        \o <<"\n", "**Battery:** ">> \o result["battery_capacity"]
                        \o <<"\n", "**OS:** ">> \o result["operating_system"]
                        \o <<"\n">>)

\* Lines 213-257.
get_phone_offers_fastmcp(phone_name, result) ==
    IF HasKey(result, "error")
    THEN Ret(<<"Error getting offers: ">> \o result["error"])
    ELSE IF Get(result, "offers") = <<>>
    THEN IF phone_name # <<>>
         THEN Ret(<<"No current offers for '">> \o phone_name \o <<"'.">>)
         ELSE Ret(<<"No current offers available.">>)
    ELSE Ret(<<"**Current Offers:**", "\n", "\n">> \o result["offers"])

\* Lines 259-308.
compare_phones_fastmcp(result) ==
    IF HasKey(result, "error")
    THEN Ret(<<"Error comparing phones: ">> \o result["error"])
    ELSE IF Get(result, "comparison") = <<>>
    THEN Ret(<<"Unable to compare phones.">>)
    ELSE Ret(<<"**Phone Comparison**", "\n", "\n">> \o result["comparison"]
               \o Get(result, "summary"))

\* Lines 310-349.
check_inventory_fastmcp(phone_name, result) ==
    IF HasKey(result, "error")
    THEN Ret(<<"Error checking inventory: ">> \o result["error"])
    ELSE IF Get(result, "inventory") = <<>>
    THEN IF phone_name # <<>>
         THEN Ret(<<"No inventory information found for '">> \o phone_name \o <<"'.">>)
         ELSE Ret(<<"No inventory information available.">>)
    ELSE Ret(<<"**Inventory Status:**", "\n", "\n">> \o result["inventory"])

----------------------------------------------------------------------------
\* The database tools of mcp_tools.py, applied to what the synchronous
\* wrapper gave back.

\* "not found" in result.lower(): the tokens of the model that contain it.
NotFoundTokens == {"' not found", "' not found.", "Database not found: None"}

\* "error" in result.lower(): the tokens of the model that contain it.
ErrorTokens ==
    {"Error searching phones: ", "Error getting phone details: ",
     "Error getting offers: ", "Error comparing phones: ",
     "Error checking inventory: "}

HasToken(text, toks) == \E i \in DOMAIN text : text[i] \in toks

\* line.split('Price:')[1].strip() of the first line with 'Price:': the
\* tokens after "Price:" up to the end of the line.
PricePart(text) ==
    LET at == SetMin({i \in DOMAIN text : text[i] = "Price:"})
        stop == SetMin({j \in at..(Len(text) + 1) : j = Len(text) + 1 \/ text[j] = "\n"})
    IN  SubSeq(text, at + 1, stop - 1)

\* Lines 26-52.
get_phone_price(phone_name, o) ==
    IF o.kind = "raise"
    THEN Ret(<<"Error retrieving price for '">> \o phone_name \o <<"': ", o.msg>>)
    ELSE IF HasToken(o.value, NotFoundTokens) \/ HasToken(o.value, ErrorTokens)
    THEN Ret(<<"Sorry, I couldn't find a phone with the model name '">>
               \o phone_name \o <<"'.">>)
    ELSE IF HasToken(o.value, {"Price:"})
    THEN Ret(<<"The price of ">> \o phone_name \o <<" is ">> \o PricePart(o.value) \o <<".">>)
    ELSE Ret(<<"Price information not available for '">> \o phone_name \o <<"'.">>)

\* Lines 54-66.
get_phone_specs(phone_name, o) ==
    IF o.kind = "raise"
    THEN Ret(<<"Error retrieving specifications for '">> \o phone_name \o <<"': ", o.msg>>)
    ELSE o

\* Lines 68-78, 80-97, 99-117, 119-134, 136-150.
list_available_phones(o) == CatchAll("Error retrieving phone list: ", o)
compare_phones(o) == CatchAll("Error comparing phones: ", o)
search_phones_by_criteria(o) == CatchAll("Error searching phones: ", o)
get_current_offers(o) == CatchAll("Error retrieving offers: ", o)
check_phone_availability(o) == CatchAll("Error checking availability: ", o)

----------------------------------------------------------------------------
\* One call of a database tool, from the agent framework down to the server.

\* How _run_async_safely runs the coroutine: on the calling thread (no loop
\* running there), on the worker, not at all (submit raised), or on a worker
\* that is still running at the timeout.
Bridges == {"noloop", "worker", "nosubmit", "late"}

\* What an attempt gets: the server's mapping as JSON text, an exception, a
\* result without content, text that is not JSON, content without text.
AttemptKinds == {"answer", "raise", "empty", "nonjson", "notext"}

ResponseOf(kind, m) ==
    CASE kind = "answer" -> [kind |-> "text", text |-> JsonDumps(m), msg |-> ""]
      [] kind = "raise" -> [kind |-> "raise", text |-> <<>>, msg |-> "Connection closed"]
      [] kind = "empty" -> [kind |-> "empty", text |-> <<>>, msg |-> ""]
      [] kind = "nonjson" -> [kind |-> "text", text |-> <<"oops">>, msg |-> ""]
      [] OTHER -> [kind |-> "notext", text |-> <<"ImageContent()">>, msg |-> ""]

\* The outcomes of the connection and of the attempts of one call_tool; the
\* outcomes of steps that are not reached are fixed.
CallScenarios ==
    { sc \in [ping1 : BOOLEAN, r1 : AttemptKinds, ping2 : BOOLEAN, r2 : AttemptKinds] :
        /\ (sc.r1 # "raise" => sc.ping2 /\ sc.r2 = "answer")
        /\ (~sc.ping2 => sc.r2 = "answer") }

\* Lines 50-99 in one piece: call_tool on the handle of s, where the server
\* answers with the mapping m.
call_tool(s, sc, m) ==
    LET s0 == [s EXCEPT !.pc = "connect", !.attempts = 0, !.used = <<>>,
                        !.raised = FALSE, !.exc = "", !.resp = NoResp, !.ret = NoRet]
        s1 == call_tool_connect(s0, sc.ping1)
        s2 == call_tool_first(s1, ResponseOf(sc.r1, m))
        s3 == call_tool_reconnect(s2, sc.ping2)
        s4 == call_tool_retry(s3, ResponseOf(sc.r2, m))
    IN  IF s1.pc = "done" THEN s1
        ELSE IF s2.pc = "done" THEN s2
        ELSE IF s3.pc = "done" THEN s3
        ELSE s4

\* The client after the coroutine of a tool call: untouched when the
\* coroutine never ran.
AfterCoroutine(b, sc, m) ==
    IF b = "nosubmit"
    THEN [Cur EXCEPT !.attempts = 0, !.used = <<>>, !.raised = FALSE, !.exc = "",
                     !.resp = NoResp, !.ret = NoRet]
    ELSE call_tool(Cur, sc, m)

\* _run_async_safely under the bridge b for a coroutine that ends as co.
Bridged(b, co) == run_async_safely(b # "noloop", b # "nosubmit", b = "late", co)

\* The server could not read its database.
ServerFailed(m) == HasKey(m, "error") /\ m["error"] = <<"Database not found: None">>

\* The operation behind a database tool failed: no worker or a timeout, no
\* connection, a last attempt that raised, or the server's own error.
OperationFailed(b, fin, m) ==
    \/ b \in {"nosubmit", "late"}
    \/ fin.attempts = 0
    \/ fin.raised
    \/ (fin.ret = Returned(m) /\ ServerFailed(m))

\* The server's mapping reached the formatter and its string the tool.
Delivered(b, fin, m) ==
    /\ b \in {"noloop", "worker"}
    /\ fin.attempts > 0
    /\ ~fin.raised
    /\ fin.ret = Returned(m)

\* The mappings the other server tools return: with data, without, and
\* their own error mapping (fastmcp_server.py 108-125, 215-223, 243-259,
\* 291-301).
ServerAnswers(t) ==
    CASE t = "search_phones" ->
            { [k \in {"results", "count"} |-> IF k = "count" THEN <<"1">> ELSE <<"a", "b">>],
              [k \in {"results", "count"} |-> IF k = "count" THEN <<"0">> ELSE <<>>],
              [k \in {"error", "results", "count"} |->
                  IF k = "error" THEN <<"Database not found: None">>
                  ELSE IF k = "count" THEN <<"0">> ELSE <<>>] }
      [] t = "get_phone_offers" ->
            { [k \in {"offers", "count"} |-> IF k = "count" THEN <<"1">> ELSE <<"Sale">>],
              [k \in {"offers", "count"} |-> IF k = "count" THEN <<"0">> ELSE <<>>],
              [k \in {"error", "offers", "count"} |->
                  IF k = "error" THEN <<"Database not found: None">>
                  ELSE IF k = "count" THEN <<"0">> ELSE <<>>] }
      [] t = "check_inventory" ->
            { [k \in {"inventory", "count"} |-> IF k = "count" THEN <<"1">> ELSE <<"a", "50">>],
              [k \in {"inventory", "count"} |-> IF k = "count" THEN <<"0">> ELSE <<>>],
              [k \in {"error", "inventory", "count"} |->
                  IF k = "error" THEN <<"Database not found: None">>
                  ELSE IF k = "count" THEN <<"0">> ELSE <<>>] }
      [] OTHER ->
            { [k \in {"comparison", "summary"} |->
                  IF k = "comparison" THEN <<"a", "b">> ELSE <<"Better value: ", "a">>],
              Mapping1("error", <<"Phone '", "b", "' not found">>),
              Mapping1("error", <<"Database not found: None">>) }

ToolInit ==
    /\ tpc = "ready"
    /\ tname = "none"
    /\ targ = <<>>
    /\ tbridge = "noloop"
    /\ tfailed = FALSE
    /\ tdelivered = FALSE
    /\ tout = NoOutcome

\* The handle a tool call can find: never connected, or connected by an
\* earlier call.
HandleInit ==
    /\ \/ client = None /\ connected = FALSE /\ made = 0
       \/ client = 1 /\ connected = TRUE /\ made = 1
    /\ pc = "idle"
    /\ tool = "search_phones"
    /\ attempts = 0
    /\ used = <<>>
    /\ raised = FALSE
    /\ exc = ""
    /\ resp = NoResp
    /\ ret = NoRet
    /\ calls = 0

\* The tool function returns o; the client is left as the coroutine left it.
ToolDone(name, arg, b, fin, m, o) ==
    /\ tpc' = "returned"
    /\ tname' = name
    /\ targ' = arg
    /\ tbridge' = b
    /\ tfailed' = OperationFailed(b, fin, m)
    /\ tdelivered' = Delivered(b, fin, m)
    /\ tout' = o
    /\ Become([fin EXCEPT !.pc = "idle"])
    /\ UNCHANGED <<tool, calls, store>>

GetPhonePrice ==
    /\ UNCHANGED notTools
    /\ tpc = "ready"
    /\ \E n \in QueryNames, b \in Bridges, sc \in CallScenarios, ok \in BOOLEAN :
          LET m == get_phone_details(store, n, ok)
              fin == AfterCoroutine(b, sc, m)
              co == get_phone_details_fastmcp(n, fin.ret.map)
          IN  ToolDone("get_phone_price", n, b, fin, m,
                       get_phone_price(n, get_phone_details_sync(Bridged(b, co))))

GetPhoneSpecs ==
    /\ UNCHANGED notTools
    /\ tpc = "ready"
    /\ \E n \in QueryNames, b \in Bridges, sc \in CallScenarios, ok \in BOOLEAN :
          LET m == get_phone_details(store, n, ok)
              fin == AfterCoroutine(b, sc, m)
              co == get_phone_details_fastmcp(n, fin.ret.map)
          IN  ToolDone("get_phone_specs", n, b, fin, m,
                       get_phone_specs(n, get_phone_details_sync(Bridged(b, co))))

ListAvailablePhones ==
    /\ UNCHANGED notTools
    /\ tpc = "ready"
    /\ \E b \in Bridges, sc \in CallScenarios, m \in ServerAnswers("search_phones") :
          LET fin == AfterCoroutine(b, sc, m)
              co == search_phones_fastmcp(fin.ret.map)
          IN  ToolDone("list_available_phones", <<>>, b, fin, m,
                       list_available_phones(search_phones_sync(Bridged(b, co))))

ComparePhones ==
    /\ UNCHANGED notTools
    /\ tpc = "ready"
    /\ \E b \in Bridges, sc \in CallScenarios, m \in ServerAnswers("compare_phones") :
          LET fin == AfterCoroutine(b, sc, m)
              co == compare_phones_fastmcp(fin.ret.map)
          IN  ToolDone("compare_phones", <<>>, b, fin, m,
                       compare_phones(compare_phones_sync(Bridged(b, co))))

SearchPhonesByCriteria ==
    /\ UNCHANGED notTools
    /\ tpc = "ready"
    /\ \E b \in Bridges, sc \in CallScenarios, m \in ServerAnswers("search_phones") :
          LET fin == AfterCoroutine(b, sc, m)
              co == search_phones_fastmcp(fin.ret.map)
          IN  ToolDone("search_phones_by_criteria", <<>>, b, fin, m,
                       search_phones_by_criteria(search_phones_sync(Bridged(b, co))))

GetCurrentOffers ==
    /\ UNCHANGED notTools
    /\ tpc = "ready"
    /\ \E n \in QueryNames, b \in Bridges, sc \in CallScenarios,
          m \in ServerAnswers("get_phone_offers") :
          LET fin == AfterCoroutine(b, sc, m)
              co == get_phone_offers_fastmcp(n, fin.ret.map)
          IN  ToolDone("get_current_offers", n, b, fin, m,
                       get_current_offers(get_phone_offers_sync(Bridged(b, co))))

CheckPhoneAvailability ==
    /\ UNCHANGED notTools
    /\ tpc = "ready"
    /\ \E n \in QueryNames, b \in Bridges, sc \in CallScenarios,
          m \in ServerAnswers("check_inventory") :
          LET fin == AfterCoroutine(b, sc, m)
              co == check_inventory_fastmcp(n, fin.ret.map)
          IN  ToolDone("check_phone_availability", n, b, fin, m,
                       check_phone_availability(check_inventory_sync(Bridged(b, co))))

----------------------------------------------------------------------------
\* The policy tools of tool.py over the search functions of rag/retriever.py.

\* What the index does for one query: the vector search has hits, it has
\* none and the keyword fallback has, neither has, the retriever cannot be
\* built, or the search raises.
IndexOutcomes == {"hits", "fallback_hits", "no_hits", "init_error", "search_error"}

IndexFailed(ix) == ix \in {"init_error", "search_error"}

IndexMsg(ix) == IF ix = "init_error" THEN "No module named 'chromadb'" ELSE "Collection not found"

PolicyResult(found, info, sources) == [found |-> found, info |-> info, sources |-> sources]

\* retriever.py 233-290.
search_warranty_info(ix) ==
    CASE ix = "hits" -> PolicyResult(TRUE, <<"doc">>, <<"warranty_policy.md">>)
      [] ix = "fallback_hits" -> PolicyResult(TRUE, <<"section">>, <<"warranty_policy">>)
      [] ix = "no_hits" ->
            PolicyResult(FALSE, <<"No warranty information found for your query.">>, <<>>)
      [] ix = "init_error" ->
            PolicyResult(FALSE, <<"RAG system initialization failed: ", IndexMsg(ix)>>, <<>>)
      [] OTHER ->
            PolicyResult(FALSE, <<"Error retrieving warranty information: ", IndexMsg(ix)>>, <<>>)

\* retriever.py 293-341.
search_replacement_info(ix) ==
    CASE ix = "hits" -> PolicyResult(TRUE, <<"doc">>, <<"replacement_policy.md">>)
      [] ix = "fallback_hits" -> PolicyResult(TRUE, <<"section">>, <<"replacement_policy">>)
      [] ix = "no_hits" ->
            PolicyResult(FALSE, <<"No replacement policy information found for your query.">>, <<>>)
      [] OTHER ->
            PolicyResult(FALSE, <<"Error retrieving replacement information: ", IndexMsg(ix)>>, <<>>)

\* retriever.py 344-401.
search_customer_support_info(ix) ==
    CASE ix = "hits" -> PolicyResult(TRUE, <<"doc">>, <<"customer_support_faq.md">>)
      [] ix = "fallback_hits" -> PolicyResult(TRUE, <<"section">>, <<"customer_support_faq">>)
      [] ix = "no_hits" ->
            PolicyResult(FALSE, <<"No customer support information found for your query.">>, <<>>)
      [] ix = "init_error" ->
            PolicyResult(FALSE, <<"RAG system initialization failed: ", IndexMsg(ix)>>, <<>>)
      [] OTHER ->
            PolicyResult(FALSE, <<"Error retrieving customer support information: ", IndexMsg(ix)>>, <<>>)

\* retriever.py 404-461: policy_info is empty whenever found is False.
search_general_policy_info(ix) ==
    CASE ix = "hits" -> PolicyResult(TRUE, <<"doc">>, <<"warranty_policy.md">>)
      [] ix = "fallback_hits" -> PolicyResult(TRUE, <<"section">>, <<"policy_document">>)
      [] OTHER -> PolicyResult(FALSE, <<>>, <<>>)

\* The telephone numbers the policy tools give.
SupportTokens == {"1-800-PHONE-FIX", "1-800-REPLACE", "1-800-PHONE-HELP"}

SourceLine(sources) == IF sources # <<>> THEN <<"Source: ">> \o sources ELSE <<>>

\* get_warranty_information that hands on what the search reported.
get_warranty_information_bare(o) ==
    IF o.kind = "raise" THEN Ret(<<o.msg>>) ELSE Ret(o.value.info)

\* tool.py 191-219, applied to the outcome of search_warranty_info.
get_warranty_information(o) ==
    IF o.kind = "raise"
    THEN Ret(<<"I'm having trouble accessing warranty information right now.",
               " Please contact our customer service at ", "1-800-PHONE-FIX",
               " for assistance. Error: ", o.msg>>)
    ELSE IF o.value.found
    THEN Ret(<<"Here's the warranty information I found:", "\n", "\n">>
               \o o.value.info \o SourceLine(o.value.sources))
    ELSE Ret(<<"I couldn't find specific warranty information for your query.",
               " Please contact our customer service at ", "1-800-PHONE-FIX",
               " for detailed warranty assistance.">>)

\* tool.py 222-250.
get_replacement_information(o) ==
    IF o.kind = "raise"
    THEN Ret(<<"I'm having trouble accessing replacement policy information right now.",
               " Please contact our customer service at ", "1-800-REPLACE",
               " for assistance. Error: ", o.msg>>)
    ELSE IF o.value.found
    THEN Ret(<<"Here's the replacement policy information I found:", "\n", "\n">>
               \o o.value.info \o SourceLine(o.value.sources))
    ELSE Ret(<<"I couldn't find specific replacement policy information for your query.",
               " Please contact our customer service at ", "1-800-REPLACE",
               " for detailed replacement assistance.">>)

\* tool.py 253-287, with the RAG functions imported.
get_customer_support_information(o) ==
    IF o.kind = "raise"
    THEN Ret(<<"I'm having trouble accessing customer support information right now",
               " (RAG system).", " Please contact us at ", "1-800-PHONE-HELP",
               " for assistance. Error: ", o.msg>>)
    ELSE IF o.value.found
    THEN Ret(<<"Here's the customer support information I found:", "\n", "\n">>
               \o o.value.info \o SourceLine(o.value.sources)
               \o <<"\n", "\n", "(Retrieved using: RAG system)">>)
    ELSE Ret(<<"I couldn't find specific customer support information for your query",
               " using RAG system.", " You can reach our customer service at ",
               "1-800-PHONE-HELP", " or visit our website for live chat support.">>)

\* tool.py 290-316.
search_phone_shop_policies(o) ==
    IF o.kind = "raise"
    THEN Ret(<<"I'm having trouble accessing policy information right now.",
               " Please contact our customer service at ", "1-800-PHONE-HELP",
               " for assistance. Error: ", o.msg>>)
    ELSE IF o.value.found
    THEN Ret(<<"Here's what I found in our policies:", "\n", "\n">>
               \o o.value.info \o SourceLine(o.value.sources))
    ELSE Ret(<<"I couldn't find relevant policy information for your query.",
               " Please contact our customer service at ", "1-800-PHONE-HELP",
               " for more specific assistance.">>)

PolicyTools ==
    {"get_warranty_information", "get_replacement_information",
     "get_customer_support_information", "search_phone_shop_policies"}

\* A policy tool returns o after the index did ix; no client is involved.
PolicyDone(name, ix, o) ==
    /\ tpc' = "returned"
    /\ tname' = name
    /\ targ' = <<ix>>
    /\ tbridge' = "noloop"
    /\ tfailed' = IndexFailed(ix)
    /\ tdelivered' = FALSE
    /\ tout' = o
    /\ UNCHANGED <<clientVars, store>>

GetWarrantyInformation ==
    /\ UNCHANGED notTools
    /\ tpc = "ready"
    /\ \E ix \in IndexOutcomes :
          PolicyDone("get_warranty_information", ix,
                     get_warranty_information(Ret(search_warranty_info(ix))))

GetReplacementInformation ==
    /\ UNCHANGED notTools
    /\ tpc = "ready"
    /\ \E ix \in IndexOutcomes :
          PolicyDone("get_replacement_information", ix,
                     get_replacement_information(Ret(search_replacement_info(ix))))

GetCustomerSupportInformation ==
    /\ UNCHANGED notTools
    /\ tpc = "ready"
    /\ \E ix \in IndexOutcomes :
          PolicyDone("get_customer_support_information", ix,
                     get_customer_support_information(Ret(search_customer_support_info(ix))))

SearchPhoneShopPolicies ==
    /\ UNCHANGED notTools
    /\ tpc = "ready"
    /\ \E ix \in IndexOutcomes :
          PolicyDone("search_phone_shop_policies", ix,
                     search_phone_shop_policies(Ret(search_general_policy_info(ix))))

\* The eleven tools registered with the agent (agent.py).
ToolNext ==
    \/ GetPhonePrice
    \/ GetPhoneSpecs
    \/ ListAvailablePhones
    \/ ComparePhones
    \/ SearchPhonesByCriteria
    \/ GetCurrentOffers
    \/ CheckPhoneAvailability
    \/ GetWarrantyInformation
    \/ GetReplacementInformation
    \/ GetCustomerSupportInformation
    \/ SearchPhoneShopPolicies

----------------------------------------------------------------------------
\* compare_phones of the server (fastmcp_server.py, 225-259) over rows with
\* their price and year columns.

Prices == 1..MaxPrice

Years == {2022, 2023}

\* get_phone_details with the numeric columns of the row: the row the
\* lookup of lines 138-155 returns for phone_name.
phone_details(st, pr, yr, phone_name) ==
    LET rows == MatchingRows(st, phone_name)
    IN  IF rows = {}
        THEN [error |-> <<"Phone '">> \o phone_name \o <<"' not found">>]
        ELSE LET i == SetMin(rows)
             IN  [model_name |-> st[i], price |-> pr[i], year |-> yr[i]]

IsError(d) == "error" \in DOMAIN d

\* Lines 225-259.  isFunction: whether the name get_phone_details, bound by
\* the decorator @mcp.tool, is still the plain function (the decorator of the
\* installed fastmcp may return a tool object, which is not callable).
server_compare_phones(st, pr, yr, phone1, phone2, isFunction) ==
    IF ~isFunction
    THEN [error |-> <<"'FunctionTool' object is not callable">>]
    ELSE LET phone1_details == phone_details(st, pr, yr, phone1)
             phone2_details == phone_details(st, pr, yr, phone2)
         IN  IF IsError(phone1_details) THEN phone1_details
             ELSE IF IsError(phone2_details) THEN phone2_details
             ELSE [comparison |-> [phone1 |-> phone1_details, phone2 |-> phone2_details],
                   summary |->
                     [price_difference |-> phone2_details.price - phone1_details.price,
                      newer_phone |->
                          IF phone1_details.year > phone2_details.year
                          THEN phone1_details.model_name ELSE phone2_details.model_name,
                      better_value |->
                          IF phone1_details.price < phone2_details.price
                          THEN phone1_details.model_name ELSE phone2_details.model_name]]

CompareIdle ==
    /\ prices = <<>>
    /\ years = <<>>
    /\ cpc = "ready"
    /\ cPhone1 = <<>>
    /\ cPhone2 = <<>>
    /\ cOut = EmptyMap

\* The phones table with a price and a year for each row.
CompareInit ==
    /\ prices \in [DOMAIN store -> Prices]
    /\ years \in [DOMAIN store -> Years]
    /\ cpc = "ready"
    /\ cPhone1 = <<>>
    /\ cPhone2 = <<>>
    /\ cOut = EmptyMap

\* A client calls the tool compare_phones(phone1, phone2).
ComparePhonesCall ==
    /\ UNCHANGED notCompare
    /\ cpc = "ready"
    /\ \E p1 \in QueryNames, p2 \in QueryNames, isFunction \in BOOLEAN :
          /\ cPhone1' = p1
          /\ cPhone2' = p2
          /\ cOut' = server_compare_phones(store, prices, years, p1, p2, isFunction)
    /\ cpc' = "done"
    /\ UNCHANGED <<store, prices, years>>

\* The mapping is sent to the client.
ComparePhonesReply ==
    /\ UNCHANGED notCompare
    /\ cpc = "done"
    /\ cpc' = "replied"
    /\ UNCHANGED <<store, prices, years, cPhone1, cPhone2, cOut>>

CompareNext == ComparePhonesCall \/ ComparePhonesReply

----------------------------------------------------------------------------
\* PolicyVectorStore._chunk_text (rag/vector_store.py, 45-79).  A text is
\* given by its length and the positions (from 0) of its '.' characters and
\* of its whitespace; every other character is part of a word.  A chunk is
\* the slice text[lo:hi].

\* The defaults of chunk_size and overlap (line 45) and the reach of the
\* search for a sentence end (line 70).
ChunkSize == 500
Overlap == 50
SentenceTail == 100

SetMax(S) == CHOOSE x \in S : \A y \in S : y <= x

\* Lengths around those where the number of windows changes.
TextLens ==
    { a + d : a \in {0, ChunkSize, ChunkSize + Overlap, 2 * (ChunkSize - Overlap),
                     2 * ChunkSize - Overlap, 2 * ChunkSize},
              d \in (0 - 1)..MaxSlack } \cap Nat

\* Where the texts of the model may have a '.': around the start of the
\* sentence tail of the first two windows, and at their ends.
DotSites ==
    { a + d : a \in {ChunkSize - SentenceTail, 2 * ChunkSize - Overlap - SentenceTail},
              d \in {0 - 1, 0, 1} }
    \cup {ChunkSize - 1, ChunkSize, 2 * ChunkSize - Overlap - 1, 2 * ChunkSize - Overlap}

\* Where they may have whitespace: at the edges of the windows.
SpaceSites ==
    {0, ChunkSize - Overlap, ChunkSize - 1, ChunkSize, 2 * (ChunkSize - Overlap)}

Texts ==
    { t \in [len : TextLens,
             dots : {d \in SUBSET DotSites : Cardinality(d) <= MaxDots},
             spaces : {w \in SUBSET SpaceSites : Cardinality(w) <= MaxSpaces}] :
        /\ t.dots \cap t.spaces = {}
        /\ \A p \in t.dots \cup t.spaces : p < t.len }

\* text.rfind('.', start, end)
RFind(t, start, end) ==
    LET found == {p \in t.dots : start <= p /\ p < end}
    IN  IF found = {} THEN 0 - 1 ELSE SetMax(found)

\* Lines 64-71: the end of the window that starts at start.
WindowEnd(t, start) ==
    LET end == start + ChunkSize
        sentence_end == RFind(t, start, end)
    IN  IF end < t.len /\ sentence_end > start + ChunkSize - SentenceTail
        THEN sentence_end + 1
        ELSE end

\* A next window that starts two overlaps before the end of the last.
NextStart_wide(end) == end - 2 * Overlap

\* Line 77: start = end - overlap
NextStart(end) == end - Overlap

\* Lines 63-77: the passes of the while loop from start on.
RECURSIVE Windows(_, _)
Windows(t, start) ==
    IF start < t.len
    THEN LET end == WindowEnd(t, start)
         IN  <<[start |-> start, end |-> end]>> \o Windows(t, NextStart(end))
    ELSE <<>>

\* The first position from p upwards, below hi, that holds no whitespace
\* (hi when there is none).
RECURSIVE LStrip(_, _, _)
LStrip(t, p, hi) == IF p < hi /\ p \in t.spaces THEN LStrip(t, p + 1, hi) ELSE p

\* The end of the slice [lo:p] without its trailing whitespace.
RECURSIVE RStrip(_, _, _)
RStrip(t, lo, p) == IF p > lo /\ (p - 1) \in t.spaces THEN RStrip(t, lo, p - 1) ELSE p

\* Line 73: text[start:end].strip() as a slice of the text; the empty
\* string is the slice [0:0].
Strip(t, w) ==
    LET hiEnd == IF w.end < t.len THEN w.end ELSE t.len
        lo == LStrip(t, w.start, hiEnd)
        hi == RStrip(t, lo, hiEnd)
    IN  IF hi > lo THEN [lo |-> lo, hi |-> hi] ELSE [lo |-> 0, hi |-> 0]

RECURSIVE StripAll(_, _, _)
StripAll(t, ws, i) ==
    IF i > Len(ws) THEN <<>>
    ELSE LET chunk == Strip(t, ws[i])
         IN  (IF chunk.hi > chunk.lo THEN <<chunk>> ELSE <<>>) \o StripAll(t, ws, i + 1)

\* Lines 45-79.
chunk_text(t) ==
    IF t.len <= ChunkSize
    THEN <<[lo |-> 0, hi |-> t.len]>>
    ELSE StripAll(t, Windows(t, 0), 1)

ChunkIdle ==
    /\ ktext = [len |-> 0, dots |-> {}, spaces |-> {}]
    /\ kpc = "ready"
    /\ windows = <<>>
    /\ chunks = <<>>

ChunkInit ==
    /\ ktext \in Texts
    /\ kpc = "ready"
    /\ windows = <<>>
    /\ chunks = <<>>

\* _chunk_text(text) runs and returns.
ChunkText ==
    /\ UNCHANGED notChunk
    /\ kpc = "ready"
    /\ kpc' = "done"
    /\ windows' = (IF ktext.len <= ChunkSize THEN <<>> ELSE Windows(ktext, 0))
    /\ chunks' = chunk_text(ktext)
    /\ ktext' = ktext

ChunkNext == ChunkText

----------------------------------------------------------------------------
\* PolicyVectorStore.add_document and the collection (rag/vector_store.py,
\* 81-132, 179-199), the loading of the data directory (201-241), the
\* initialisation of PolicyRetrievalTool (rag/retriever.py, 114-162) and the
\* setup script (setup_rag.py, 38-73).

\* md_file.stem of the policy files.
Sources == {"warranty_policy", "replacement_policy", "customer_support_faq"}

SourceCode(source) ==
    CASE source = "warranty_policy" -> 1
      [] source = "replacement_policy" -> 2
      [] OTHER -> 3

\* The texts a policy file may hold: one of a single chunk, two of two
\* chunks.
DocTexts ==
    { [len |-> 1, dots |-> {}, spaces |-> {}],
      [len |-> ChunkSize + 1, dots |-> {}, spaces |-> {}],
      [len |-> ChunkSize + 1, dots |-> {ChunkSize - 1}, spaces |-> {}] }

\* A chunk of a document: the slice [lo:hi] of its text.
ChunkOf(content, slice) == [doc |-> content, lo |-> slice.lo, hi |-> slice.hi]

\* A number for the characters of a chunk.
ContentCode(chunk) ==
    chunk.doc.len * 1009 + Cardinality(chunk.doc.dots) * 499 + chunk.lo * 31 + chunk.hi

\* Lines 81-84: f"{source}_{md5(source:content)[:8]}"; the 8 hexadecimal
\* digits are kept as two numbers of 4 digits each.
generate_doc_id(chunk, source) ==
    [source |-> source,
     hash |-> << (SourceCode(source[1]) * 40503 + ContentCode(chunk)) % (16 ^ 4),
                 (source[2] * 65599 + ContentCode(chunk) * 31) % (16 ^ 4) >>]

Ids(coll) == {e.id : e \in coll}

\* collection.add that inserts whatever it is given.
collection_add_always(coll, entries, dup) == [coll |-> coll \cup entries, raised |-> FALSE]

\* Line 120: collection.add(documents, metadatas, ids).  An id the
\* collection holds already is left as it is, or the whole call raises.
collection_add(coll, entries, dup) ==
    IF dup = "raise" /\ \E e \in entries : e.id \in Ids(coll)
    THEN [coll |-> coll, raised |-> TRUE]
    ELSE [coll |-> coll \cup {e \in entries : e.id \notin Ids(coll)}, raised |-> FALSE]

\* Lines 95-116: the ids and the entries add_document builds for content.
DocEntries(content, source, n) ==
    LET slices == chunk_text(content)
    IN  [i \in DOMAIN slices |->
            [id |-> generate_doc_id(ChunkOf(content, slices[i]), <<source, i - 1>>),
             source |-> source,
             chunk_index |-> i - 1,
             document |-> ChunkOf(content, slices[i]),
             load |-> n]]

Range(f) == {f[i] : i \in DOMAIN f}

\* Lines 86-132: add_document(content, source) on the collection coll;
\* n numbers the call.
add_document(coll, content, source, n, dup) ==
    LET entries == DocEntries(content, source, n)
        added == collection_add(coll, Range(entries), dup)
    IN  [coll |-> added.coll,
         ids |-> [i \in DOMAIN entries |-> entries[i].id],
         raised |-> added.raised]

\* Lines 201-241: load_documents_from_directory adds every file; a file
\* whose add_document raises is logged and passed over.
RECURSIVE LoadFiles(_, _, _, _, _)
LoadFiles(coll, fs, todo, n, dup) ==
    IF todo = {} THEN coll
    ELSE LET source == CHOOSE x \in todo : \A y \in todo : SourceCode(x) <= SourceCode(y)
         IN  LoadFiles(add_document(coll, fs[source], source, n, dup).coll,
                       fs, todo \ {source}, n, dup)

load_documents_from_directory(coll, fs, n, dup) == LoadFiles(coll, fs, Sources, n, dup)

\* Lines 179-190 with stats.get("total_documents", 0): the count, or 0 when
\* collection.count() raised and get_collection_stats returned {}.
TotalDocuments(coll, countOk) == IF countOk THEN Cardinality(coll) ELSE 0

IndexIdle ==
    /\ files = [source \in Sources |-> [len |-> 1, dots |-> {}, spaces |-> {}]]
    /\ collection = {}
    /\ onDuplicate = "ignore"
    /\ loadNo = 0
    /\ adds = <<>>

\* An empty collection, before anything was added.
IndexInit ==
    /\ files \in [Sources -> DocTexts]
    /\ collection = {}
    /\ onDuplicate \in {"ignore", "raise"}
    /\ loadNo = 0
    /\ adds = <<>>

\* A caller adds a document to the store.
AddDocument ==
    /\ UNCHANGED notIndex
    /\ loadNo < MaxAdds
    /\ \E content \in DocTexts, source \in Sources :
          LET r == add_document(collection, content, source, loadNo + 1, onDuplicate)
          IN  /\ collection' = r.coll
              /\ adds' = Append(adds, [content |-> content, source |-> source, ids |-> r.ids,
                                        raised |-> r.raised, count |-> Cardinality(r.coll)])
    /\ loadNo' = loadNo + 1
    /\ UNCHANGED <<files, onDuplicate>>

StoreNext == AddDocument

\* retriever.py 114-142: PolicyRetrievalTool is constructed; the documents
\* are loaded when total_docs is 0.
InitializeVectorStore ==
    /\ UNCHANGED notIndex
    /\ loadNo < MaxLoads
    /\ \E countOk \in BOOLEAN :
          IF TotalDocuments(collection, countOk) = 0
          THEN /\ collection' =
                    load_documents_from_directory(collection, files, loadNo + 1, onDuplicate)
               /\ loadNo' = loadNo + 1
          ELSE UNCHANGED <<collection, loadNo>>
    /\ UNCHANGED <<files, onDuplicate, adds>>

\* setup_rag.py 38-73: the setup script runs; with documents in the
\* collection it asks, and on 'y' deletes the collection and makes a new
\* one before it loads.
SetupRag ==
    /\ UNCHANGED notIndex
    /\ loadNo < MaxLoads
    /\ \E countOk \in BOOLEAN, response \in {"y", "n"} :
          IF TotalDocuments(collection, countOk) > 0
          THEN IF response = "y"
               THEN /\ collection' =
                         load_documents_from_directory({}, files, loadNo + 1, onDuplicate)
                    /\ loadNo' = loadNo + 1
               ELSE UNCHANGED <<collection, loadNo>>
          ELSE /\ collection' =
                    load_documents_from_directory(collection, files, loadNo + 1, onDuplicate)
               /\ loadNo' = loadNo + 1
    /\ UNCHANGED <<files, onDuplicate, adds>>

\* Somebody edits a policy file.
EditFile ==
    /\ UNCHANGED notIndex
    /\ \E source \in Sources, content \in DocTexts :
          /\ content # files[source]
          /\ files' = [files EXCEPT ![source] = content]
    /\ UNCHANGED <<collection, onDuplicate, loadNo, adds>>

IndexNext ==
    \/ InitializeVectorStore
    \/ SetupRag
    \/ EditFile

----------------------------------------------------------------------------
\* _fallback_text_search (rag/retriever.py, 22-77) and the search functions
\* over it (233-401).  A line and a query are sequences of characters; a
\* file is a sequence of lines; a snippet is the sequence of the lines that
\* "\n".join puts together.

\* Lines 15-19: _DOCUMENT_TYPE_TO_FILENAME, by the stem of the file name.
DOCUMENT_TYPE_TO_FILENAME ==
    [t \in {"warranty_policy", "replacement_policy", "customer_support"} |->
        CASE t = "warranty_policy" -> "warranty_policy"
          [] t = "replacement_policy" -> "replacement_policy"
          [] OTHER -> "customer_support_faq"]

\* list(_DOCUMENT_TYPE_TO_FILENAME.keys())
AllDocumentTypes == <<"warranty_policy", "replacement_policy", "customer_support">>

\* A file that is not in the data directory.
Missing == << <<"missing">> >>

LineSet == { <<>>, <<"a">>, <<"b">> }

\* The files of the model: every warranty file of up to MaxLines lines, and
\* a few replacement and support files.
LongDocs == UNION { [1..n -> LineSet] : n \in 0..MaxLines }

ShortDocs == { Missing, << <<"A", "b">> >>, << <<"b">>, <<"a">>, <<>> >> }

DocSets ==
    { [t \in DOMAIN DOCUMENT_TYPE_TO_FILENAME |->
          CASE t = "warranty_policy" -> w
            [] t = "replacement_policy" -> r
            [] OTHER -> << <<"a">> >>] : w \in LongDocs, r \in ShortDocs }

Queries == { <<>>, <<" ">>, <<"A">>, <<"c", " ", "a">>, <<"c">> }

LowerStr(str) == [i \in DOMAIN str |-> Lower(str[i])]

\* query.split(): the maximal runs of characters that are not whitespace.
RECURSIVE Split(_, _, _)
Split(str, i, word) ==
    IF i > Len(str) THEN (IF word = <<>> THEN <<>> ELSE <<word>>)
    ELSE IF str[i] = " "
    THEN (IF word = <<>> THEN <<>> ELSE <<word>>) \o Split(str, i + 1, <<>>)
    ELSE Split(str, i + 1, Append(word, str[i]))

\* Line 28.
Tokens(query) == LET words == Split(query, 1, <<>>) IN [i \in DOMAIN words |-> LowerStr(words[i])]

\* token in lowered
SubstringOf(token, lowered) ==
    \E k \in 0..(Len(lowered) - Len(token)) : SubSeq(lowered, k + 1, k + Len(token)) = token

\* Lines 55-56.
LineMatches(tokens, line) ==
    \E i \in DOMAIN tokens : SubstringOf(tokens[i], LowerStr(line))

\* Lines 57-58, for the line at position index (from 1): the lines from
\* two before to two after it.
WindowOf(lines, index) ==
    LET start == IF index - 2 < 1 THEN 1 ELSE index - 2
        end == IF index + 2 > Len(lines) THEN Len(lines) ELSE index + 2
    IN  SubSeq(lines, start, end)

\* "\n".join(...).strip(): the empty lines at both ends go.
RECURSIVE StripLines(_)
StripLines(ls) ==
    IF ls = <<>> THEN <<>>
    ELSE IF Head(ls) = <<>> THEN StripLines(Tail(ls))
    ELSE IF ls[Len(ls)] = <<>> THEN StripLines(SubSeq(ls, 1, Len(ls) - 1))
    ELSE ls

\* Lines 52-61: the snippets of one file.
RECURSIVE Snippets(_, _, _, _)
Snippets(lines, tokens, index, snippets) ==
    IF index > Len(lines) THEN snippets
    ELSE LET snippet == StripLines(WindowOf(lines, index))
         IN  IF /\ LineMatches(tokens, lines[index])
                /\ snippet # <<>>
                /\ \A i \in DOMAIN snippets : snippets[i] # snippet
             THEN Snippets(lines, tokens, index + 1, Append(snippets, snippet))
             ELSE Snippets(lines, tokens, index + 1, snippets)

\* seq[:n] for n >= 0
Take(seq, n) == SubSeq(seq, 1, IF n < Len(seq) THEN n ELSE Len(seq))

\* Lines 64-75.
FallbackEntry(snippet, document_type) ==
    [content |-> snippet,
     source |-> DOCUMENT_TYPE_TO_FILENAME[document_type],
     document_type |-> document_type,
     fallback |-> TRUE,
     relevance_score |-> "0.4"]

\* Lines 35-75: the entries of the document types from position i on.
RECURSIVE ScanTypes(_, _, _, _, _)
ScanTypes(docs, tokens, document_types, i, max_results) ==
    IF i > Len(document_types) THEN <<>>
    ELSE LET document_type == document_types[i]
             rest == ScanTypes(docs, tokens, document_types, i + 1, max_results)
         IN  IF document_type \notin DOMAIN DOCUMENT_TYPE_TO_FILENAME THEN rest
             ELSE IF docs[document_type] = Missing THEN rest
             ELSE LET snippets == Take(Snippets(docs[document_type], tokens, 1, <<>>),
                                       max_results)
                  IN  [k \in DOMAIN snippets |-> FallbackEntry(snippets[k], document_type)]
                          \o rest

\* _fallback_text_search without the slice of line 77.
fallback_text_search_uncut(docs, query, document_types, max_results) ==
    IF Tokens(query) = <<>> THEN <<>>
    ELSE ScanTypes(docs, Tokens(query), document_types, 1, max_results)

\* Lines 22-77, over the files docs.
fallback_text_search(docs, query, document_types, max_results) ==
    IF Tokens(query) = <<>> THEN <<>>
    ELSE Take(ScanTypes(docs, Tokens(query), document_types, 1, max_results), max_results)

\* What vector_store.search hands to a search function: nothing (no entry
\* of the type, or the query raised and search returned []), or hits.
VectorResults ==
    { <<>>,
      << [document |-> << <<"a">> >>, source |-> "indexed", relevance_score |-> "0.9"] >> }

\* The search functions scan without looking at the similarity results.
search_info_always_scan(docs, document_type, retrieverOk, vector, query, max_results) ==
    LET results == fallback_text_search(docs, query, <<document_type>>, max_results)
    IN  [found |-> results # <<>>,
         info |-> [i \in DOMAIN results |-> results[i].content],
         sources |-> [i \in DOMAIN results |-> results[i].source],
         scanned |-> TRUE,
         fallback |-> results]

\* Lines 233-290, 293-341, 344-401: search_warranty_info,
\* search_replacement_info and search_customer_support_info are this
\* function of their document type.  retrieverOk: PolicyRetrievalTool()
\* could be constructed; vector: what the similarity search returned.
search_info(docs, document_type, retrieverOk, vector, query, max_results) ==
    IF ~retrieverOk
    THEN [found |-> FALSE, info |-> << <<"RAG system initialization failed">> >>,
          sources |-> <<>>, scanned |-> FALSE, fallback |-> <<>>]
    ELSE LET scan == vector = <<>>
             fb == IF scan
                   THEN fallback_text_search(docs, query, <<document_type>>, max_results)
                   ELSE <<>>
         IN  IF ~scan
             THEN [found |-> TRUE,
                   info |-> [i \in DOMAIN vector |-> vector[i].document],
                   sources |-> [i \in DOMAIN vector |-> vector[i].source],
                   scanned |-> FALSE, fallback |-> <<>>]
             ELSE IF fb # <<>>
             THEN [found |-> TRUE,
                   info |-> [i \in DOMAIN fb |-> fb[i].content],
                   sources |-> [i \in DOMAIN fb |-> fb[i].source],
                   scanned |-> TRUE, fallback |-> fb]
             ELSE [found |-> FALSE, info |-> << <<"No information found for your query.">> >>,
                   sources |-> <<>>, scanned |-> TRUE, fallback |-> <<>>]

NoSearchResult ==
    [found |-> FALSE, info |-> <<>>, sources |-> <<>>, scanned |-> FALSE, fallback |-> <<>>]

SearchIdle ==
    /\ fdocs = [t \in DOMAIN DOCUMENT_TYPE_TO_FILENAME |-> Missing]
    /\ fquery = <<>>
    /\ fmax = 0
    /\ fpc = "ready"
    /\ fcall = <<>>
    /\ fvector = <<>>
    /\ fscanned = FALSE
    /\ fres = <<>>
    /\ sres = NoSearchResult

\* The files, the query and max_results of the call to come.
SearchInit ==
    /\ fdocs \in DocSets
    /\ fquery \in Queries
    /\ fmax \in 0..MaxResults
    /\ fpc = "ready"
    /\ fcall = <<>>
    /\ fvector = <<>>
    /\ fscanned = FALSE
    /\ fres = <<>>
    /\ sres = NoSearchResult

\* _fallback_text_search(query, document_types, max_results) is called:
\* with all types (None), with the two long lists, or with a type that has
\* no file name.
FallbackTextSearch ==
    /\ UNCHANGED notSearch
    /\ fpc = "ready"
    /\ \E document_types \in {AllDocumentTypes, <<"warranty_policy">>,
                               <<"general_policy", "replacement_policy", "warranty_policy">>} :
          /\ fcall' = <<"_fallback_text_search">> \o document_types
          /\ fres' = fallback_text_search(fdocs, fquery, document_types, fmax)
    /\ fpc' = "done"
    /\ fscanned' = TRUE
    /\ UNCHANGED <<fdocs, fquery, fmax, fvector, sres>>

\* One of the three search functions is called.
SearchInfo ==
    /\ UNCHANGED notSearch
    /\ fpc = "ready"
    /\ \E document_type \in DOMAIN DOCUMENT_TYPE_TO_FILENAME,
          retrieverOk \in BOOLEAN, vector \in VectorResults :
          LET r == search_info(fdocs, document_type, retrieverOk, vector, fquery, fmax)
          IN  /\ fcall' = <<"search_info", document_type,
                              IF retrieverOk THEN "searched" ELSE "not_initialized">>
              /\ fvector' = (IF retrieverOk THEN vector ELSE <<>>)
              /\ fscanned' = r.scanned
              /\ fres' = r.fallback
              /\ sres' = r
    /\ fpc' = "done"
    /\ UNCHANGED <<fdocs, fquery, fmax>>

SearchNext == FallbackTextSearch \/ SearchInfo

----------------------------------------------------------------------------
\* The weather agent's tools (weather_agent/agent.py).

Cities == {"New York", "NEW YORK", "new york", "Tokyo", ""}

\* city.lower(), on the cities of the model
CityLower(city) ==
    CASE city \in {"New York", "NEW YORK"} -> "new york"
      [] city = "Tokyo" -> "tokyo"
      [] OTHER -> city

NoHttp == [kind |-> "none", status_code |-> 0, body |-> ""]

\* requests.get raised (timeout, no connection).
HttpRaised == [kind |-> "raise", status_code |-> 0, body |-> ""]

StatusCodes == {200, 404, 500}

\* Bodies of the geocoding service: not JSON, no "results" key, an empty
\* list, a list whose first element has no latitude, a list with a place.
GeoBodies == {"not_json", "no_results", "empty_results", "no_latitude", "place"}

\* Bodies of the forecast service: not JSON, no "current_weather" key, a
\* current_weather without temperature, a full one.
ForecastBodies == {"not_json", "no_current_weather", "no_temperature", "current_weather"}

GeoResponses ==
    {HttpRaised} \cup [kind : {"response"}, status_code : StatusCodes, body : GeoBodies]

ForecastResponses ==
    {HttpRaised} \cup [kind : {"response"}, status_code : StatusCodes, body : ForecastBodies]

WReturned(m) == [kind |-> "dict", map |-> m]

WError(message) == WReturned([status |-> "error", error_message |-> message])

\* An exception left the function.
WRaised(e) == [kind |-> "raise", exc |-> e]

NoWRet == [kind |-> "none"]

\* Lines 23-31 without the test of line 27.
get_weather_geo_unchecked(city, geo_resp) ==
    IF geo_resp.kind = "raise" THEN [next |-> "done", ret |-> WError(<<"requests.get failed">>)]
    ELSE IF geo_resp.status_code # 200
    THEN [next |-> "done", ret |-> WError(<<"Failed to fetch location data.">>)]
    ELSE IF geo_resp.body = "not_json"
    THEN [next |-> "done", ret |-> WError(<<"JSONDecodeError">>)]
    ELSE [next |-> "forecast", ret |-> NoWRet]

\* Lines 17-31 and 57-58: what get_weather does with the answer to the
\* geocoding request: return, or go on to the forecast request.
get_weather_geo(city, geo_resp) ==
    IF geo_resp.kind = "raise" THEN [next |-> "done", ret |-> WError(<<"requests.get failed">>)]
    ELSE IF geo_resp.status_code # 200
    THEN [next |-> "done", ret |-> WError(<<"Failed to fetch location data.">>)]
    ELSE IF geo_resp.body = "not_json"
    THEN [next |-> "done", ret |-> WError(<<"JSONDecodeError">>)]
    ELSE IF geo_resp.body \in {"no_results", "empty_results"}
    THEN [next |-> "done", ret |-> WError(<<"City not found.", city>>)]
    ELSE IF geo_resp.body = "no_latitude"
    THEN [next |-> "done", ret |-> WError(<<"KeyError: latitude">>)]
    ELSE [next |-> "forecast", ret |-> NoWRet]

\* Lines 36-58: what get_weather returns after the forecast request.
get_weather_forecast(city, weather_resp) ==
    IF weather_resp.kind = "raise" THEN WError(<<"requests.get failed">>)
    ELSE IF weather_resp.status_code # 200 THEN WError(<<"Failed to fetch weather data.">>)
    ELSE IF weather_resp.body = "not_json" THEN WError(<<"JSONDecodeError">>)
    ELSE IF weather_resp.body = "no_current_weather"
    THEN WError(<<"Weather information is not available.", city>>)
    ELSE IF weather_resp.body = "no_temperature" THEN WError(<<"KeyError: temperature">>)
    ELSE WReturned([status |-> "success", report |-> <<"The weather in", city>>])

\* Lines 61-84.  For "new york" in any case the function returns the
\* mapping of lines 73-78; for every other city tz_identifier has no value
\* at line 80 and the read raises UnboundLocalError.
get_current_time(city) ==
    IF CityLower(city) = "new york"
    THEN WError(<<"Sorry, I don't have timezone information for", city>>)
    ELSE WRaised("UnboundLocalError")

WeatherIdle ==
    /\ wtpc = "idle"
    /\ wfn = ""
    /\ wcity = ""
    /\ wsent = <<>>
    /\ wgeo = NoHttp
    /\ wfc = NoHttp
    /\ wret = NoWRet
    /\ wcalls = 0
    /\ wlog = <<>>

\* The agent framework calls get_weather(city).
GetWeatherCall ==
    /\ UNCHANGED notWeather
    /\ wtpc = "idle"
    /\ wcalls < MaxWeatherCalls
    /\ \E city \in Cities : wcity' = city
    /\ wfn' = "get_weather"
    /\ wtpc' = "geocoding"
    /\ wcalls' = wcalls + 1
    /\ wsent' = <<>>
    /\ wgeo' = NoHttp
    /\ wfc' = NoHttp
    /\ wret' = NoWRet
    /\ UNCHANGED wlog

\* Line 21 to line 31: the geocoding request and what follows it.
GeocodingRequest ==
    /\ UNCHANGED notWeather
    /\ wtpc = "geocoding"
    /\ \E geo_resp \in GeoResponses :
          LET r == get_weather_geo(wcity, geo_resp)
          IN  /\ wgeo' = geo_resp
              /\ wtpc' = r.next
              /\ wret' = r.ret
    /\ wsent' = Append(wsent, "geocoding")
    /\ UNCHANGED <<wfn, wcity, wfc, wcalls, wlog>>

\* Line 36 to line 55: the forecast request and what follows it.
ForecastRequest ==
    /\ UNCHANGED notWeather
    /\ wtpc = "forecast"
    /\ \E weather_resp \in ForecastResponses :
          /\ wfc' = weather_resp
          /\ wret' = get_weather_forecast(wcity, weather_resp)
    /\ wtpc' = "done"
    /\ wsent' = Append(wsent, "forecast")
    /\ UNCHANGED <<wfn, wcity, wgeo, wcalls, wlog>>

\* The agent framework calls get_current_time(city).
GetCurrentTime ==
    /\ UNCHANGED notWeather
    /\ wtpc = "idle"
    /\ wcalls < MaxWeatherCalls
    /\ \E city \in Cities :
          /\ wcity' = city
          /\ wret' = get_current_time(city)
    /\ wfn' = "get_current_time"
    /\ wtpc' = "done"
    /\ wcalls' = wcalls + 1
    /\ wsent' = <<>>
    /\ wgeo' = NoHttp
    /\ wfc' = NoHttp
    /\ UNCHANGED wlog

\* The call is over; the framework has its outcome.
WeatherReturn ==
    /\ UNCHANGED notWeather
    /\ wtpc = "done"
    /\ wtpc' = "idle"
    /\ wlog' = Append(wlog, <<wfn, wret.kind>>)
    /\ UNCHANGED <<wfn, wcity, wsent, wgeo, wfc, wret, wcalls>>

WeatherNext ==
    GetWeatherCall \/ GeocodingRequest \/ ForecastRequest \/ GetCurrentTime \/ WeatherReturn

----------------------------------------------------------------------------
\* The loop of _chunk_text (rag/vector_store.py, 57-79) pass by pass, for
\* the default parameters and for others.  start may be negative; rfind and
\* the slice of line 73 then count from the end of the text.

\* An index of a slice or of rfind, brought into 0..n as Python does.
PyIndex(i, n) ==
    IF i < 0 THEN (IF n + i < 0 THEN 0 ELSE n + i)
    ELSE IF i > n THEN n ELSE i

\* text.rfind('.', start, end), for any integers start and end
PyRFind(t, start, end) ==
    LET found == {q \in t.dots : PyIndex(start, t.len) <= q /\ q < PyIndex(end, t.len)}
    IN  IF found = {} THEN 0 - 1 ELSE SetMax(found)

\* Lines 64-71: end, for the pass that begins at start.
PassEnd(t, chunk_size, start) ==
    LET end == start + chunk_size
        sentence_end == PyRFind(t, start, end)
    IN  IF end < t.len /\ sentence_end > start + chunk_size - SentenceTail
        THEN sentence_end + 1
        ELSE end

\* Line 73-75: chunks after the pass over text[start:end].
PassChunks(t, cs, start, end) ==
    LET chunk == Strip(t, [start |-> PyIndex(start, t.len), end |-> PyIndex(end, t.len)])
    IN  IF chunk.hi > chunk.lo THEN Append(cs, chunk) ELSE cs

\* Line 77 with chunk_size in the place of overlap.
PassNextStart_size(chunk_size, overlap, end) == end - chunk_size

\* Line 77.
PassNextStart(chunk_size, overlap, end) == end - overlap

\* (chunk_size, overlap) of the calls: the defaults, which add_document
\* uses, and the small pairs with 0 <= overlap < chunk_size.
ParamPairs ==
    { <<ChunkSize, Overlap>> } \cup { <<c, o>> : c \in 1..MaxChunk, o \in 0..(MaxChunk - 1) }

\* The texts for a chunk_size: those of the model of the defaults, and for
\* a small chunk_size every text of up to 2 * chunk_size + 1 characters.
LoopTexts(chunk_size) ==
    IF chunk_size = ChunkSize
    THEN {t \in Texts : t.spaces = {}}
    ELSE UNION { [len : {n},
                  dots : {d \in SUBSET (0..(n - 1)) : Cardinality(d) <= MaxDots},
                  spaces : {{}}] : n \in 0..(2 * chunk_size + 1) }

LoopIdle ==
    /\ ltext = [len |-> 0, dots |-> {}, spaces |-> {}]
    /\ lsize = ChunkSize
    /\ lover = Overlap
    /\ lpc = "ready"
    /\ lstart = 0
    /\ lend = 0
    /\ lpasses = 0
    /\ lchunks = <<>>

LoopInit ==
    /\ \E pr \in ParamPairs : pr[2] < pr[1] /\ lsize = pr[1] /\ lover = pr[2]
    /\ ltext \in LoopTexts(lsize)
    /\ lpc = "ready"
    /\ lstart = 0
    /\ lend = 0
    /\ lpasses = 0
    /\ lchunks = <<>>

\* Lines 57-61: a short text is returned at once; else the loop begins.
ChunkTextEnter ==
    /\ UNCHANGED notLoop
    /\ lpc = "ready"
    /\ IF ltext.len <= lsize
       THEN lpc' = "done" /\ lchunks' = <<[lo |-> 0, hi |-> ltext.len]>>
       ELSE lpc' = "loop" /\ lchunks' = <<>>
    /\ lstart' = 0
    /\ UNCHANGED <<ltext, lsize, lover, lend, lpasses>>

\* Lines 63-77: one pass of the loop.
LoopPass ==
    /\ UNCHANGED notLoop
    /\ lpc = "loop"
    /\ lstart < ltext.len
    /\ lpasses < MaxPasses
    /\ LET end == PassEnd(ltext, lsize, lstart)
       IN  /\ lend' = end
           /\ lchunks' = PassChunks(ltext, lchunks, lstart, end)
           /\ lstart' = PassNextStart(lsize, lover, end)
    /\ lpasses' = lpasses + 1
    /\ UNCHANGED <<ltext, lsize, lover, lpc>>

\* Lines 63 and 79: the loop ends and chunks is returned.
LoopExit ==
    /\ UNCHANGED notLoop
    /\ lpc = "loop"
    /\ lstart >= ltext.len
    /\ lpc' = "done"
    /\ UNCHANGED <<ltext, lsize, lover, lstart, lend, lpasses, lchunks>>

LoopNext == ChunkTextEnter \/ LoopPass \/ LoopExit

----------------------------------------------------------------------------
\* The shop database (database/init_db.py).  A table is the set of its
\* rows; seq holds the largest id each AUTOINCREMENT table has handed out.

Tables == {"phones", "camera_features", "charging_features", "inventory", "offers"}

\* create_database_schema on a new file (lines 12-94): empty tables.
EmptyDb ==
    [phones |-> {}, camera_features |-> {}, charging_features |-> {},
     inventory |-> {}, offers |-> {}, seq |-> [t \in Tables |-> 0]]

\* An entry of phone_specifications.json: model name, price and year.
PhoneData ==
    [model_name : PhoneNames, price : 1..MaxPrice, year : {2023},
     chipset_name : {<<"c">>}, operating_system : {<<"o">>}]

\* The JSON files of the model: up to MaxJson phones of different names.
JsonFiles ==
    UNION { { f \in [1..n -> PhoneData] :
                \A i, j \in 1..n : f[i].model_name = f[j].model_name => i = j }
            : n \in 0..MaxJson }

\* DELETE of the phones row old.  With foreign keys enforced the rows of
\* camera_features, charging_features and inventory that reference it go
\* too (ON DELETE CASCADE, lines 41, 51, 82) and the offers that reference
\* it get phone_id NULL (ON DELETE SET NULL, line 70); without, they stay.
DeletePhone(d, old, fk) ==
    IF fk
    THEN [d EXCEPT !.phones = @ \ {old},
                   !.camera_features = {r \in @ : r.phone_id # old.id},
                   !.charging_features = {r \in @ : r.phone_id # old.id},
                   !.inventory = {r \in @ : r.phone_id # old.id},
                   !.offers = {IF r.phone_id = old.id THEN [r EXCEPT !.phone_id = None] ELSE r
                               : r \in @}]
    ELSE [d EXCEPT !.phones = @ \ {old}]

\* Lines 108-123: INSERT OR REPLACE INTO phones.  model_name is UNIQUE
\* (line 21): a row of the same name is deleted, and the new row gets the
\* next id of the table.
InsertOrReplacePhone(d, phone_data, fk) ==
    LET same == {r \in d.phones : r.model_name = phone_data.model_name}
        e == IF same = {} THEN d ELSE DeletePhone(d, CHOOSE r \in same : TRUE, fk)
        id == d.seq["phones"] + 1
    IN  [e EXCEPT !.phones = @ \cup
                      {[id |-> id, model_name |-> phone_data.model_name,
                        price |-> phone_data.price, year |-> phone_data.year,
                        chipset_name |-> phone_data.chipset_name,
                        operating_system |-> phone_data.operating_system]},
                  !.seq["phones"] = id]

\* cursor.lastrowid after the INSERT OR REPLACE (line 125)
LastPhoneId(d, phone_data) ==
    (CHOOSE r \in d.phones : r.model_name = phone_data.model_name).id

\* INSERT of one row into a table with AUTOINCREMENT id.
InsertRow(d, table, row) ==
    [d EXCEPT ![table] = @ \cup {[row EXCEPT !.id = d.seq[table] + 1]},
              !.seq[table] = @ + 1]

\* Lines 105-155 for one phone of the file: the phone, its features (one of
\* each kind) and its inventory row.  inventory has no UNIQUE column, so
\* INSERT OR REPLACE INTO inventory (line 147) adds a row.
PopulateOne(d, phone_data, fk) ==
    LET d1 == InsertOrReplacePhone(d, phone_data, fk)
        phone_id == LastPhoneId(d1, phone_data)
        d2 == [d1 EXCEPT !.camera_features = {r \in @ : r.phone_id # phone_id},
                         !.charging_features = {r \in @ : r.phone_id # phone_id}]
        d3 == InsertRow(d2, "camera_features", [id |-> 0, phone_id |-> phone_id])
        d4 == InsertRow(d3, "charging_features", [id |-> 0, phone_id |-> phone_id])
    IN  InsertRow(d4, "inventory",
                  [id |-> 0, phone_id |-> phone_id, stock_quantity |-> 50,
                   reserved_quantity |-> 0])

\* Lines 96-159.
RECURSIVE populate_phone_data(_, _, _, _)
populate_phone_data(d, phones_data, i, fk) ==
    IF i > Len(phones_data) THEN d
    ELSE populate_phone_data(PopulateOne(d, phones_data[i], fk), phones_data, i + 1, fk)

\* The days an offer of sample_offers lasts (lines 176, 183, 190).
OfferDays == <<7, 30, 14>>

\* Lines 167-168 and 194: the first three phones, by id.
RECURSIVE FirstPhones(_, _)
FirstPhones(rows, n) ==
    IF n = 0 \/ rows = {} THEN <<>>
    ELSE LET first == CHOOSE r \in rows : \A o \in rows : r.id <= o.id
         IN  <<first>> \o FirstPhones(rows \ {first}, n - 1)

\* Lines 161-227.
RECURSIVE create_sample_offers(_, _, _, _)
create_sample_offers(d, phones, i, now) ==
    IF i > Len(phones) THEN d
    ELSE create_sample_offers(
             InsertRow(d, "offers",
                       [id |-> 0, phone_id |-> phones[i].id, is_active |-> 1,
                        start_date |-> now, end_date |-> now + OfferDays[i]]),
             phones, i + 1, now)

\* No tool has answered yet.
NoAnswer == [kind |-> "none"]

DbIdle ==
    /\ db = EmptyDb
    /\ fkOn = FALSE
    /\ today = 0
    /\ dpc = "idle"
    /\ druns = 0
    /\ qcall = <<>>
    /\ qout = NoAnswer

\* A new database after create_database_schema.
LoadInit ==
    /\ db = EmptyDb
    /\ fkOn \in BOOLEAN
    /\ today = 0
    /\ dpc = "idle"
    /\ druns = 0
    /\ qcall = <<>>
    /\ qout = NoAnswer

\* main() calls populate_phone_data (lines 243-247), on the file as it is
\* at this run.
PopulatePhoneData ==
    /\ UNCHANGED notDb
    /\ dpc = "idle"
    /\ druns < MaxRuns
    /\ \E phones_data \in JsonFiles :
          /\ db' = populate_phone_data(db, phones_data, 1, fkOn)
          /\ qcall' = <<"populate_phone_data", phones_data>>
    /\ dpc' = "populated"
    /\ druns' = druns + 1
    /\ UNCHANGED <<fkOn, today, qout>>

\* main() calls create_sample_offers (line 253).
CreateSampleOffers ==
    /\ UNCHANGED notDb
    /\ dpc = "populated"
    /\ db' = create_sample_offers(db, FirstPhones(db.phones, 3), 1, today)
    /\ dpc' = "idle"
    /\ qcall' = <<"create_sample_offers">>
    /\ UNCHANGED <<fkOn, today, druns, qout>>

LoadNext == PopulatePhoneData \/ CreateSampleOffers

----------------------------------------------------------------------------
\* The offers of the shop (mcp/fastmcp_server.py, 162-170 and 179-223).

\* The day of the calls; dates are day numbers around it.
Today == 10

Dates == {Today - 1, Today, Today + 1}

\* A row of offers: phone_id and end_date may be NULL (None).
OfferRows ==
    [phone_id : {None, 1}, is_active : {0, 1}, start_date : Dates,
     end_date : Dates \cup {None}]

\* The offers tables of the model: up to MaxOffers rows, ids from 1.
OfferTables ==
    UNION { { {[id |-> i, phone_id |-> f[i].phone_id, is_active |-> f[i].is_active,
                start_date |-> f[i].start_date, end_date |-> f[i].end_date] : i \in 1..n}
              : f \in [1..n -> OfferRows] }
            : n \in 0..MaxOffers }

OnePhone ==
    {[id |-> 1, model_name |-> <<"a">>, price |-> 1, year |-> 2023,
      chipset_name |-> <<"c">>, operating_system |-> <<"o">>]}

\* Lines 165-166, 198-199, 207-208: o.is_active = 1 AND (o.end_date IS
\* NULL OR o.end_date >= date('now')).
OfferIsCurrent(o, now) ==
    o.is_active = 1 /\ (o.end_date = None \/ o.end_date >= now)

\* Lines 193-219: the offers get_phone_offers returns.  With a phone_name
\* the join is an inner one, on the phones whose name is LIKE it; without,
\* every offer is a candidate.
get_phone_offers(d, phone_name, now) ==
    LET candidates ==
            IF phone_name # <<>>
            THEN {o \in d.offers : \E r \in d.phones :
                      o.phone_id = r.id /\ Like(phone_name, r.model_name)}
            ELSE d.offers
        offers == {o \in candidates : OfferIsCurrent(o, now)}
    IN  [kind |-> "dict", offers |-> offers, count |-> Cardinality(offers)]

\* Lines 142-173: active_offers of get_phone_details, for the first phone
\* whose name is LIKE phone_name.
get_phone_details_offers(d, phone_name, now) ==
    LET rows == {r \in d.phones : Like(phone_name, r.model_name)}
    IN  IF rows = {} THEN [kind |-> "dict", error |-> "not found"]
        ELSE LET phone == CHOOSE r \in rows : \A o \in rows : r.id <= o.id
             IN  [kind |-> "dict", id |-> phone.id,
                  active_offers |-> {o \in d.offers :
                                        o.phone_id = phone.id /\ OfferIsCurrent(o, now)}]

\* A database with one phone and some offers.
OffersInit ==
    /\ \E t \in OfferTables :
          db = [EmptyDb EXCEPT !.phones = OnePhone, !.offers = t,
                               !.seq = [x \in Tables |->
                                           IF x = "offers" THEN Cardinality(t)
                                           ELSE IF x = "phones" THEN 1 ELSE 0]]
    /\ fkOn \in BOOLEAN
    /\ today = Today
    /\ dpc = "ready"
    /\ druns = 0
    /\ qcall = <<>>
    /\ qout = NoAnswer

\* A client calls the tool get_phone_offers.
GetPhoneOffers ==
    /\ UNCHANGED notDb
    /\ dpc = "ready"
    /\ \E phone_name \in {<<>>, <<"a">>, <<"b">>} :
          /\ qcall' = <<"get_phone_offers", phone_name>>
          /\ qout' = get_phone_offers(db, phone_name, today)
    /\ dpc' = "done"
    /\ UNCHANGED <<db, fkOn, today, druns>>

\* A client calls the tool get_phone_details.
GetPhoneDetailsOffers ==
    /\ UNCHANGED notDb
    /\ dpc = "ready"
    /\ \E phone_name \in {<<"a">>, <<"b">>} :
          /\ qcall' = <<"get_phone_details", phone_name>>
          /\ qout' = get_phone_details_offers(db, phone_name, today)
    /\ dpc' = "done"
    /\ UNCHANGED <<db, fkOn, today, druns>>

OffersNext == GetPhoneOffers \/ GetPhoneDetailsOffers

----------------------------------------------------------------------------
\* search_phones and get_price_range (mcp/fastmcp_server.py, 52-125 and
\* 303-314).

\* A filter that was not supplied (None).
Absent == 0 - 1

\* s LIKE '%' || pat || '%': pat occurs in s, letters compared without
\* regard to case, "_" in pat standing for any one character.
SqlLike(pat, str) ==
    \E k \in 0..(Len(str) - Len(pat)) :
        \A j \in 1..Len(pat) : pat[j] = "_" \/ Lower(str[k + j]) = Lower(pat[j])

\* Lines 80-95: the WHERE clause, for the filters that were supplied.
SearchMatches(r, query, min_price, max_price, year) ==
    /\ query # <<>> =>
          \/ SqlLike(query, r.model_name)
          \/ SqlLike(query, r.chipset_name)
          \/ SqlLike(query, r.operating_system)
    /\ min_price # Absent => r.price >= min_price
    /\ max_price # Absent => r.price <= max_price
    /\ year # Absent => r.year = year

\* ORDER BY p.price (line 97), rows of one price by id.
RECURSIVE OrderByPrice(_)
OrderByPrice(rows) ==
    IF rows = {} THEN <<>>
    ELSE LET first == CHOOSE r \in rows :
                          \A o \in rows : r.price < o.price \/ (r.price = o.price /\ r.id <= o.id)
         IN  <<first>> \o OrderByPrice(rows \ {first})

\* Lines 52-125, with the database at hand.  GROUP BY p.id gives one row
\* for each phone.
search_phones(d, query, min_price, max_price, year) ==
    LET phones == OrderByPrice({r \in d.phones :
                                   SearchMatches(r, query, min_price, max_price, year)})
    IN  [kind |-> "dict", query |-> query,
         filters |-> [min_price |-> min_price, max_price |-> max_price, year |-> year],
         results |-> phones, count |-> Len(phones)]

\* Lines 303-314.  isFunction: whether the name search_phones, bound by the
\* decorator @mcp.tool, is still the plain function; where the decorator
\* of the installed fastmcp returns a tool object the call raises
\* TypeError, and nothing in get_price_range catches it.
get_price_range(d, min_price, max_price, isFunction) ==
    IF isFunction
    THEN search_phones(d, <<>>, min_price, max_price, Absent)
    ELSE [kind |-> "raise", exc |-> "TypeError"]

\* The phones tables of the model: up to MaxPhones rows of different names.
PhoneTables ==
    UNION { { {[id |-> i, model_name |-> f[i].model_name, price |-> f[i].price,
                year |-> f[i].year, chipset_name |-> f[i].chipset_name,
                operating_system |-> f[i].operating_system] : i \in 1..n}
              : f \in {g \in [1..n -> [model_name : PhoneNames, price : 1..MaxPrice,
                                        year : Years, chipset_name : {<<"c">>},
                                        operating_system : {<<"o">>}]] :
                          \A i, j \in 1..n : g[i].model_name = g[j].model_name => i = j} }
            : n \in 0..MaxPhones }

SearchQueries == { <<>>, <<"a">>, <<"A">>, <<"_">>, <<"c">> }

PhonesInit ==
    /\ \E t \in PhoneTables :
          db = [EmptyDb EXCEPT !.phones = t,
                               !.seq = [x \in Tables |->
                                           IF x = "phones" THEN Cardinality(t) ELSE 0]]
    /\ fkOn \in BOOLEAN
    /\ today = Today
    /\ dpc = "ready"
    /\ druns = 0
    /\ qcall = <<>>
    /\ qout = NoAnswer

\* A client calls the tool search_phones.
SearchPhones ==
    /\ UNCHANGED notDb
    /\ dpc = "ready"
    /\ \E query \in SearchQueries, min_price \in {Absent, MaxPrice},
          max_price \in {Absent, 1}, year \in {Absent, 2023} :
          /\ qcall' = <<"search_phones", query, min_price, max_price, year>>
          /\ qout' = search_phones(db, query, min_price, max_price, year)
    /\ dpc' = "done"
    /\ UNCHANGED <<db, fkOn, today, druns>>

\* A client calls the tool get_price_range.
GetPriceRange ==
    /\ UNCHANGED notDb
    /\ dpc = "ready"
    /\ \E min_price \in 0..MaxPrice, max_price \in 0..MaxPrice, isFunction \in BOOLEAN :
          /\ qcall' = <<"get_price_range", <<>>, min_price, max_price, Absent>>
          /\ qout' = get_price_range(db, min_price, max_price, isFunction)
    /\ dpc' = "done"
    /\ UNCHANGED <<db, fkOn, today, druns>>

PhonesNext == SearchPhones \/ GetPriceRange

----------------------------------------------------------------------------
\* Stock in the two views: get_phone_details_fastmcp and
\* check_inventory_fastmcp (mcp/fastmcp_client.py, 192-198 and 333-345),
\* over the rows the server tools hand them.

\* fastmcp_server.py 142-155: stock_quantity of the phone, from the LEFT
\* JOIN with inventory; None for a phone without inventory row.
DetailsStock(d, phone) ==
    LET rows == {i \in d.inventory : i.phone_id = phone.id}
    IN  IF rows = {} THEN None
        ELSE (CHOOSE i \in rows : \A o \in rows : i.id <= o.id).stock_quantity

\* fastmcp_client.py 192-198: the stock line of the details view.
DetailsStockLine(d, phone) ==
    LET rows == {i \in d.inventory : i.phone_id = phone.id}
    IN  IF rows = {} THEN "none"
        ELSE IF DetailsStock(d, phone) > 0 THEN "units available" ELSE "Out of stock"

\* fastmcp_client.py 341-345: the availability line of an inventory item.
InventoryLine(item) ==
    IF item.stock_quantity - item.reserved_quantity > 0 THEN "Available" ELSE "Not available"

\* Two phones, each with one inventory row.
TwoPhones ==
    {[id |-> i, model_name |-> IF i = 1 THEN <<"a">> ELSE <<"b">>, price |-> 1,
      year |-> 2023, chipset_name |-> <<"c">>, operating_system |-> <<"o">>] : i \in 1..2}

StockInit ==
    /\ \E f \in [1..2 -> [stock_quantity : 0..MaxStock, reserved_quantity : 0..MaxStock]] :
          db = [EmptyDb EXCEPT !.phones = TwoPhones,
                               !.inventory = {[id |-> i, phone_id |-> i,
                                               stock_quantity |-> f[i].stock_quantity,
                                               reserved_quantity |-> f[i].reserved_quantity]
                                              : i \in 1..2},
                               !.seq = [x \in Tables |->
                                           IF x \in {"phones", "inventory"} THEN 2 ELSE 0]]
    /\ fkOn \in BOOLEAN
    /\ today = Today
    /\ dpc = "ready"
    /\ druns = 0
    /\ qcall = <<>>
    /\ qout = NoAnswer

\* The agent asks for the details of a phone.
DetailsView ==
    /\ UNCHANGED notDb
    /\ dpc = "ready"
    /\ \E phone \in db.phones :
          /\ qcall' = <<"get_phone_details", phone.model_name>>
          /\ qout' = [kind |-> "text", phone_id |-> phone.id,
                      stock |-> DetailsStockLine(db, phone), available |-> "none"]
    /\ dpc' = "detailed"
    /\ UNCHANGED <<db, fkOn, today, druns>>

\* The agent asks for the inventory of the same phone.
InventoryView ==
    /\ UNCHANGED notDb
    /\ dpc = "detailed"
    /\ \E item \in {i \in db.inventory : i.phone_id = qout.phone_id} :
          qout' = [qout EXCEPT !.available = InventoryLine(item)]
    /\ qcall' = <<"check_inventory", qcall[2]>>
    /\ dpc' = "done"
    /\ UNCHANGED <<db, fkOn, today, druns>>

StockNext == DetailsView \/ InventoryView

----------------------------------------------------------------------------
\* PolicyRetrievalTool.run_async (rag/retriever.py, 164-230) over
\* PolicyVectorStore.search (rag/vector_store.py, 134-177).

\* What args may hold under "query": no such key, None, or a string.
QueryArgs ==
    {[kind |-> "missing"], [kind |-> "None"]}
        \cup {[kind |-> "str", text |-> t] : t \in { <<>>, <<" ">>, <<"q">> }}

\* document_type of args when the key is absent.
NoType == "None"

DocTypes == {"warranty", "replacement"}

\* The arguments of the model.
RetrievalArgs ==
    [query : QueryArgs, max_results : {Absent, 0} \cup 1..MaxResults,
     document_type : {NoType, "warranty"}]

\* The entries collection.query may find, nearest first: the metadata of
\* an entry is a mapping with or without "source", or None.
Hits == [metadata : {"source", "nosource", "None"}, document_type : DocTypes]

RECURSIVE SeqsUpTo(_, _)
SeqsUpTo(S, n) ==
    IF n = 0 THEN { <<>> }
    ELSE LET shorter == SeqsUpTo(S, n - 1)
         IN  shorter \cup {Append(q, x) : q \in shorter, x \in S}

\* Line 173: args.get("query", "").
ArgsQuery(args) ==
    IF args.query.kind = "missing" THEN [kind |-> "str", text |-> <<>>] ELSE args.query

\* not query, for None and for strings.
Falsy(query) == query.kind = "None" \/ (query.kind = "str" /\ query.text = <<>>)

\* Line 181: args.get("max_results", 5).
ArgsMaxResults(args) == IF args.max_results = Absent THEN 5 ELSE args.max_results

\* Lines 174-178: the mapping returned when there is no query.
NoQueryProvided == [error |-> "No query provided", results |-> <<>>]

RECURSIVE Where(_, _)
Where(hits, document_type) ==
    IF hits = <<>> THEN <<>>
    ELSE (IF document_type = NoType \/ Head(hits).document_type = document_type
          THEN <<Head(hits)>> ELSE <<>>) \o Where(Tail(hits), document_type)

\* vector_store.py 134-177: search returns what collection.query found,
\* and the empty list when collection.query raised (as it does for
\* n_results < 1).
vector_store_search(hits, fails, n_results, document_type) ==
    IF fails \/ n_results < 1 THEN <<>>
    ELSE Take(Where(hits, document_type), n_results)

\* Lines 195-204: one formatted result.
FormatResult(result) ==
    [source |-> IF result.metadata = "source" THEN "policy.txt" ELSE "unknown",
     document_type |-> result.document_type]

\* Lines 193-230: the response made of search_results; metadata None
\* raises AttributeError at line 198, which line 222 catches.
run_async_format(args, search_results) ==
    IF \E i \in DOMAIN search_results : search_results[i].metadata = "None"
    THEN [error |-> "AttributeError", query |-> ArgsQuery(args), results |-> <<>>,
          status |-> "error"]
    ELSE [query |-> ArgsQuery(args),
          results |-> [i \in DOMAIN search_results |-> FormatResult(search_results[i])],
          total_results |-> Len(search_results), status |-> "success"]

\* Lines 172-178 without the test of the query.
run_async_enter_unchecked(args) == [pc |-> "search", ret |-> [kind |-> "none"]]

\* Lines 172-178: the query is read and tested.
run_async_enter(args) ==
    IF Falsy(ArgsQuery(args))
    THEN [pc |-> "done", ret |-> [kind |-> "dict", value |-> NoQueryProvided]]
    ELSE [pc |-> "search", ret |-> [kind |-> "none"]]

RetrIdle ==
    /\ rargs = [query |-> [kind |-> "missing"], max_results |-> Absent, document_type |-> NoType]
    /\ rhits = <<>>
    /\ rfails = FALSE
    /\ rpc = "idle"
    /\ rqueries = 0
    /\ rfound = <<>>
    /\ rret = [kind |-> "none"]

RetrInit ==
    /\ rargs \in RetrievalArgs
    /\ rhits \in SeqsUpTo(Hits, MaxResults)
    /\ rfails \in BOOLEAN
    /\ rpc = "ready"
    /\ rqueries = 0
    /\ rfound = <<>>
    /\ rret = [kind |-> "none"]

\* The framework awaits run_async(args=..., tool_context=...).
RunAsync ==
    /\ UNCHANGED notRetr
    /\ rpc = "ready"
    /\ LET r == run_async_enter(rargs)
       IN  rpc' = r.pc /\ rret' = r.ret
    /\ UNCHANGED <<rargs, rhits, rfails, rqueries, rfound>>

\* Lines 189-193: self.vector_store.search(...).
VectorStoreSearch ==
    /\ UNCHANGED notRetr
    /\ rpc = "search"
    /\ rqueries' = rqueries + 1
    /\ rfound' = vector_store_search(rhits, rfails, ArgsMaxResults(rargs), rargs.document_type)
    /\ rpc' = "format"
    /\ UNCHANGED <<rargs, rhits, rfails, rret>>

\* Lines 195-230: the results are formatted and the response returned.
RunAsyncRespond ==
    /\ UNCHANGED notRetr
    /\ rpc = "format"
    /\ rret' = [kind |-> "dict", value |-> run_async_format(rargs, rfound)]
    /\ rpc' = "done"
    /\ UNCHANGED <<rargs, rhits, rfails, rqueries, rfound>>

RetrNext == RunAsync \/ VectorStoreSearch \/ RunAsyncRespond

----------------------------------------------------------------------------
\* get_fastmcp_client (mcp/fastmcp_client.py, 115-125) called on the
\* worker threads of _run_async_safely (355-376): every synchronous wrapper
\* called under a running loop runs its coroutine, and so
\* get_fastmcp_client, on a thread of its own.  The threads switch between
\* the test of line 122, the assignment of line 123 and the return.

Threads == 1..MaxThreads

SingletonIdle ==
    /\ gclient = None
    /\ gmade = 0
    /\ gpc = [t \in Threads |-> "idle"]
    /\ gret = [t \in Threads |-> None]

\* Lines 362-372: run_in_thread starts the coroutine on its new loop.
RunInThread(t) ==
    /\ UNCHANGED notSingleton
    /\ gpc[t] = "idle"
    /\ gpc' = [gpc EXCEPT ![t] = "test"]
    /\ UNCHANGED <<gclient, gmade, gret>>

\* Line 122: if _fastmcp_client is None.
GetClientTest(t) ==
    /\ UNCHANGED notSingleton
    /\ gpc[t] = "test"
    /\ gpc' = [gpc EXCEPT ![t] = IF gclient = None THEN "create" ELSE "return"]
    /\ UNCHANGED <<gclient, gmade, gret>>

\* Line 123: _fastmcp_client = PhoneShopFastMCPClient().
GetClientCreate(t) ==
    /\ UNCHANGED notSingleton
    /\ gpc[t] = "create"
    /\ gmade' = gmade + 1
    /\ gclient' = gmade + 1
    /\ gpc' = [gpc EXCEPT ![t] = "return"]
    /\ UNCHANGED gret

\* Line 125: return _fastmcp_client.
GetClientReturn(t) ==
    /\ UNCHANGED notSingleton
    /\ gpc[t] = "return"
    /\ gret' = [gret EXCEPT ![t] = gclient]
    /\ gpc' = [gpc EXCEPT ![t] = "done"]
    /\ UNCHANGED <<gclient, gmade>>

SingletonNext ==
    \E t \in Threads :
        RunInThread(t) \/ GetClientTest(t) \/ GetClientCreate(t) \/ GetClientReturn(t)

----------------------------------------------------------------------------
\* ensure_connected, call_tool and list_tools of one PhoneShopFastMCPClient
\* (mcp/fastmcp_client.py, 31-113) as coroutines of one event loop: a
\* coroutine runs alone from one await to the next, and the others run
\* while it is suspended.

Tasks == 1..MaxTasks

Methods == {"ensure_connected", "call_tool", "list_tools"}

IdleTask == [op |-> "none", at |-> "idle", retry |-> FALSE]

TasksIdle == tasks = [t \in Tasks |-> IdleTask]

\* Where a method goes on when its ensure_connected has returned ok.
AfterEnsure(task, ok) ==
    IF task.op = "ensure_connected" \/ ~ok THEN "done"
    ELSE IF task.op = "call_tool" THEN "call"
    ELSE "list"

\* A caller awaits one of the methods.
TaskStart(t) ==
    /\ UNCHANGED notTasks
    /\ tasks[t].at = "idle"
    /\ \E op \in Methods : tasks' = [tasks EXCEPT ![t] = [op |-> op, at |-> "check", retry |-> FALSE]]
    /\ UNCHANGED <<client, connected, made>>

\* Lines 33-36: the test, and Client(...) up to the await of
\* async with self.client; line 48 when the handle is connected.
EnsureCheck(t) ==
    /\ UNCHANGED notTasks
    /\ tasks[t].at = "check"
    /\ IF ~connected \/ client = None
       THEN /\ client' = made + 1
            /\ made' = made + 1
            /\ tasks' = [tasks EXCEPT ![t].at = "enter"]
            /\ UNCHANGED connected
       ELSE /\ tasks' = [tasks EXCEPT ![t].at = AfterEnsure(tasks[t], TRUE)]
            /\ UNCHANGED <<client, connected, made>>

\* Lines 36-37: the context is entered and self.client.ping() is called;
\* self.client is read again here.  Lines 42-47 when either raises.
EnsureEntered(t) ==
    /\ UNCHANGED notTasks
    /\ tasks[t].at = "enter"
    /\ \E entered \in BOOLEAN :
          IF entered /\ client # None
          THEN /\ tasks' = [tasks EXCEPT ![t].at = "ping"]
               /\ UNCHANGED <<client, connected>>
          ELSE /\ connected' = FALSE
               /\ client' = None
               /\ tasks' = [tasks EXCEPT ![t].at = AfterEnsure(tasks[t], FALSE)]
    /\ UNCHANGED made

\* Lines 37-41: the ping and the exit of the context have finished, and
\* _connected is set; lines 42-47 when one of them raised.
EnsurePinged(t) ==
    /\ UNCHANGED notTasks
    /\ tasks[t].at = "ping"
    /\ \E ping \in BOOLEAN :
          IF ping
          THEN /\ connected' = TRUE
               /\ tasks' = [tasks EXCEPT ![t].at = AfterEnsure(tasks[t], TRUE)]
               /\ UNCHANGED client
          ELSE /\ connected' = FALSE
               /\ client' = None
               /\ tasks' = [tasks EXCEPT ![t].at = AfterEnsure(tasks[t], FALSE)]
    /\ UNCHANGED made

\* Lines 55-99: one attempt of call_tool.  The first attempt that raises
\* runs lines 76-77 and line 81 up to the await inside ensure_connected
\* (lines 33-36); the exception of the second is logged.
CallAttempt(t) ==
    /\ UNCHANGED notTasks
    /\ tasks[t].at = "call"
    /\ \E answered \in BOOLEAN :
          IF answered /\ client # None
          THEN /\ tasks' = [tasks EXCEPT ![t].at = "done"]
               /\ UNCHANGED <<client, connected, made>>
          ELSE IF tasks[t].retry
          THEN /\ tasks' = [tasks EXCEPT ![t].at = "done"]
               /\ UNCHANGED <<client, connected, made>>
          ELSE /\ connected' = FALSE
               /\ client' = made + 1
               /\ made' = made + 1
               /\ tasks' = [tasks EXCEPT ![t].at = "enter", ![t].retry = TRUE]

\* Lines 105-113: the listing; an exception resets _connected only.
ListAttempt(t) ==
    /\ UNCHANGED notTasks
    /\ tasks[t].at = "list"
    /\ \E answered \in BOOLEAN :
          IF answered /\ client # None
          THEN UNCHANGED connected
          ELSE connected' = FALSE
    /\ tasks' = [tasks EXCEPT ![t].at = "done"]
    /\ UNCHANGED <<client, made>>

TasksNext ==
    \E t \in Tasks :
        \/ TaskStart(t)
        \/ EnsureCheck(t)
        \/ EnsureEntered(t)
        \/ EnsurePinged(t)
        \/ CallAttempt(t)
        \/ ListAttempt(t)

\* The components that a specification leaves in their initial state.
LaterIdle(component) ==
    /\ component # "compare" => CompareIdle
    /\ component # "chunk" => ChunkIdle
    /\ component # "index" => IndexIdle
    /\ component # "search" => SearchIdle
    /\ component # "weather" => WeatherIdle
    /\ component # "loop" => LoopIdle
    /\ component # "db" => DbIdle
    /\ component # "retr" => RetrIdle
    /\ component # "singleton" => SingletonIdle
    /\ component # "tasks" => TasksIdle

----------------------------------------------------------------------------
NoStore == store = <<>> /\ ServerIdle

Init == ClientInit /\ BridgeInit /\ NoStore /\ ToolInit /\ LaterIdle("")

Next == ClientNext

Spec == Init /\ [][Next]_vars

SpecBridge == Init /\ [][BridgeNext]_vars

InitServer == ClientInit /\ BridgeInit /\ ServerInit /\ ToolInit /\ LaterIdle("")

InitTools == HandleInit /\ BridgeInit /\ ServerInit /\ ToolInit /\ LaterIdle("")

SpecTools == InitTools /\ [][ToolNext]_vars

SpecServer == InitServer /\ [][ServerNext]_vars

InitCompare ==
    ClientInit /\ BridgeInit /\ ServerInit /\ ToolInit /\ CompareInit /\ LaterIdle("compare")

SpecCompare == InitCompare /\ [][CompareNext]_vars

InitChunk ==
    ClientInit /\ BridgeInit /\ NoStore /\ ToolInit /\ ChunkInit /\ LaterIdle("chunk")

SpecChunk == InitChunk /\ [][ChunkNext]_vars

InitIndex ==
    ClientInit /\ BridgeInit /\ NoStore /\ ToolInit /\ IndexInit /\ LaterIdle("index")

SpecStore == InitIndex /\ [][StoreNext]_vars

SpecIndex == InitIndex /\ [][IndexNext]_vars

InitSearch ==
    ClientInit /\ BridgeInit /\ NoStore /\ ToolInit /\ SearchInit /\ LaterIdle("search")

SpecSearch == InitSearch /\ [][SearchNext]_vars

InitWeather ==
    ClientInit /\ BridgeInit /\ NoStore /\ ToolInit /\ LaterIdle("")

SpecWeather == InitWeather /\ [][WeatherNext]_vars

----------------------------------------------------------------------------
\* The weather agent's tools.

\* Claim C15: get_current_time(city) returns, for every city, a mapping
\* with a 'status' key and a result or an error message; no city makes it
\* raise or return nothing.
C15_CurrentTimeReturnsMapping ==
    (wtpc = "done" /\ wfn = "get_current_time") =>
        /\ wret.kind = "dict"
        /\ "status" \in DOMAIN wret.map
        /\ \/ "report" \in DOMAIN wret.map
           \/ "error_message" \in DOMAIN wret.map

\* What the code does: only the cities that are "new york" in some case get
\* a mapping, and it is the error mapping; every other city raises.
CurrentTimeByCity ==
    (wtpc = "done" /\ wfn = "get_current_time") =>
        IF wcity \in {"New York", "NEW YORK", "new york"}
        THEN wret.kind = "dict" /\ wret.map.status = "error"
        ELSE wret.kind = "raise"

\* Claim C20: get_weather issues the geocoding request first and the
\* current-conditions request only after the geocoding request returned
\* status 200 with a non-empty result list; it returns status 'success' only
\* when both requests returned 200 and the second payload has
\* current_weather; on every other path, exceptions included, it returns a
\* mapping with status 'error'.
C20_GeocodingThenForecast ==
    wfn = "get_weather" =>
        /\ wsent \in { <<>>, <<"geocoding">>, <<"geocoding", "forecast">> }
        /\ (wtpc = "forecast" \/ Len(wsent) = 2) =>
              /\ wgeo.kind = "response"
              /\ wgeo.status_code = 200
              /\ wgeo.body \in {"no_latitude", "place"}
        /\ wtpc = "done" =>
              /\ wret.kind = "dict"
              /\ wret.map.status \in {"success", "error"}
              /\ wret.map.status = "success" =>
                    /\ wsent = <<"geocoding", "forecast">>
                    /\ wgeo.kind = "response" /\ wgeo.status_code = 200
                    /\ wfc.kind = "response" /\ wfc.status_code = 200
                    /\ wfc.body \in {"no_temperature", "current_weather"}
              /\ wret.map.status = "error" => "error_message" \in DOMAIN wret.map

\* A call that got a place and then a forecast without temperature: both
\* requests returned 200, and the call returns the error mapping.
C20_Witness ==
    /\ wtpc = "done"
    /\ wfn = "get_weather"
    /\ wsent = <<"geocoding", "forecast">>
    /\ wgeo.status_code = 200
    /\ wfc.status_code = 200
    /\ wfc.body = "no_temperature"
    /\ wret.map.status = "error"
    /\ Len(wlog) = 1

InitLoop ==
    ClientInit /\ BridgeInit /\ NoStore /\ ToolInit /\ LoopInit /\ LaterIdle("loop")

\* The interpreter runs the function on: a pass that can be made is made.
SpecLoop == InitLoop /\ [][LoopNext]_vars /\ WF_vars(LoopNext)

----------------------------------------------------------------------------
\* The loop of _chunk_text.

Defaults == lsize = ChunkSize /\ lover = Overlap

\* Claim C27: with the default parameters (chunk_size 500, overlap 50,
\* sentence tail of 100 characters) _chunk_text terminates for every text:
\* start is never negative, every pass of the loop leaves it larger than it
\* was, and the function returns.
C27_DefaultsTerminate ==
    /\ [][(Defaults /\ lpc = "loop" /\ lpasses' = lpasses + 1)
            => (lstart >= 0 /\ lstart' > lstart)]_vars
    /\ [](Defaults /\ lpc = "loop" /\ lstart < ltext.len => lpasses < MaxPasses)
    /\ <>(Defaults => lpc = "done")

\* A text of the defaults that took three passes, one of them ended at a
\* sentence end.
C27_Witness ==
    /\ Defaults
    /\ lpc = "done"
    /\ lpasses = 3
    /\ lend > ltext.len
    /\ \E i \in DOMAIN lchunks : (lchunks[i].hi - 1) \in ltext.dots /\ lchunks[i].hi < ltext.len

\* Claim C30: _chunk_text(text, chunk_size, overlap) terminates for every
\* text and every 0 <= overlap < chunk_size: start is never negative, every
\* pass of the loop leaves it larger than it was, and the function returns.
C30_AllParametersTerminate ==
    /\ [][(lpc = "loop" /\ lpasses' = lpasses + 1)
            => (lstart >= 0 /\ lstart' > lstart)]_vars
    /\ <>(lpc = "done")

InitLoad ==
    ClientInit /\ BridgeInit /\ NoStore /\ ToolInit /\ LoadInit /\ LaterIdle("db")

SpecLoad == InitLoad /\ [][LoadNext]_vars

----------------------------------------------------------------------------
\* The shop database.

PhoneIds == {r.id : r \in db.phones}

\* Claim C21: after any number of runs of the data load on the same
\* database phones.model_name is unique, every camera_features,
\* charging_features and inventory row references a phone that exists, and
\* every offer references no phone or a phone that exists.
C21_ReferentialKeysHold ==
    (dpc = "idle" /\ druns >= 1) =>
        /\ \A r, o \in db.phones : r.model_name = o.model_name => r = o
        /\ \A r \in db.camera_features \cup db.charging_features \cup db.inventory :
              r.phone_id \in PhoneIds
        /\ \A r \in db.offers : r.phone_id = None \/ r.phone_id \in PhoneIds

\* What holds in every build: model_name is unique; and where the SQLite
\* of the build enforces foreign keys, the references hold too.
KeysHoldWhereEnforced ==
    /\ \A r, o \in db.phones : r.model_name = o.model_name => r = o
    /\ (fkOn /\ dpc = "idle") =>
          /\ \A r \in db.camera_features \cup db.charging_features \cup db.inventory :
                r.phone_id \in PhoneIds
          /\ \A r \in db.offers : r.phone_id = None \/ r.phone_id \in PhoneIds

InitOffers ==
    ClientInit /\ BridgeInit /\ NoStore /\ ToolInit /\ OffersInit /\ LaterIdle("db")

SpecOffers == InitOffers /\ [][OffersNext]_vars

\* The offers of the answer in qout.
Answered ==
    IF qout.kind # "dict" THEN {}
    ELSE IF "offers" \in DOMAIN qout THEN qout.offers
    ELSE IF "active_offers" \in DOMAIN qout THEN qout.active_offers
    ELSE {}

\* Claim C22: every offer that get_phone_offers returns as current, and
\* every entry of active_offers of get_phone_details, has its active flag
\* set, a start date that is not in the future, and an end date that is
\* absent or not in the past.
C22_CurrentOffersAreValidToday ==
    dpc = "done" =>
        \A o \in Answered :
            /\ o.is_active = 1
            /\ o.start_date <= today
            /\ o.end_date = None \/ o.end_date >= today

\* What the queries test: the flag and the end date; start_date is not
\* looked at.
OffersFilteredByFlagAndEnd ==
    dpc = "done" =>
        /\ \A o \in Answered : o.is_active = 1 /\ (o.end_date = None \/ o.end_date >= today)
        /\ qcall = <<"get_phone_offers", <<>> >> =>
              \A o \in db.offers :
                  (o.is_active = 1 /\ (o.end_date = None \/ o.end_date >= today))
                      => o \in Answered

InitPhones ==
    ClientInit /\ BridgeInit /\ NoStore /\ ToolInit /\ PhonesInit /\ LaterIdle("db")

SpecPhones == InitPhones /\ [][PhonesNext]_vars

InitStock ==
    ClientInit /\ BridgeInit /\ NoStore /\ ToolInit /\ StockInit /\ LaterIdle("db")

SpecStock == InitStock /\ [][StockNext]_vars

\* sub occurs in str, character by character.
IsSubstring(sub, str) ==
    \E k \in 0..(Len(str) - Len(sub)) : SubSeq(str, k + 1, k + Len(sub)) = sub

\* The phone r satisfies the filters of the call in qcall.
SatisfiesFilters(r) ==
    /\ qcall[2] # <<>> =>
          \/ IsSubstring(qcall[2], r.model_name)
          \/ IsSubstring(qcall[2], r.chipset_name)
          \/ IsSubstring(qcall[2], r.operating_system)
    /\ qcall[3] # Absent => r.price >= qcall[3]
    /\ qcall[4] # Absent => r.price <= qcall[4]
    /\ qcall[5] # Absent => r.year = qcall[5]

\* Claim C23: search_phones returns exactly the phones that satisfy every
\* supplied filter (min_price <= price <= max_price, the year, query a
\* substring of model name, chipset or operating system), each once, in
\* non-decreasing price order, with count the number of results; and
\* get_price_range(min, max) returns the mapping of search_phones with
\* these two price filters only.
C23_SearchReturnsExactlyTheMatches ==
    dpc = "done" =>
        /\ qout.kind = "dict"
        /\ {qout.results[i] : i \in DOMAIN qout.results} = {r \in db.phones : SatisfiesFilters(r)}
        /\ \A i, j \in DOMAIN qout.results :
              /\ i < j => qout.results[i].price <= qout.results[j].price
              /\ i # j => qout.results[i] # qout.results[j]
        /\ qout.count = Len(qout.results)
        /\ qcall[1] = "get_price_range" =>
              qout = search_phones(db, <<>>, qcall[3], qcall[4], Absent)

\* What the code does: the query is matched with LIKE; get_price_range
\* either gives the mapping of search_phones or raises.
SearchByLikeInPriceOrder ==
    dpc = "done" =>
        IF qout.kind = "raise" THEN qcall[1] = "get_price_range"
        ELSE /\ {qout.results[i] : i \in DOMAIN qout.results} =
                    {r \in db.phones : SearchMatches(r, qcall[2], qcall[3], qcall[4], qcall[5])}
             /\ \A i, j \in DOMAIN qout.results :
                   /\ i < j => qout.results[i].price <= qout.results[j].price
                   /\ i # j => qout.results[i] # qout.results[j]
             /\ qout.count = Len(qout.results)

\* Claim C28: for every inventory record the details view and the
\* inventory view agree: get_phone_details_fastmcp reports units available
\* exactly when check_inventory_fastmcp reports the phone as available,
\* whatever the stock and the reserved quantity.
C28_ViewsAgreeOnAvailability ==
    dpc = "done" =>
        (qout.stock = "units available" <=> qout.available = "Available")

\* What the views do: the details view looks at the stock, the inventory
\* view at the stock less the reserved units.
ViewsDifferByReserved ==
    dpc = "done" =>
        \A i \in db.inventory :
            i.phone_id = qout.phone_id =>
                /\ qout.stock = "units available" <=> i.stock_quantity > 0
                /\ qout.available = "Available" <=> i.stock_quantity > i.reserved_quantity

InitRetr ==
    ClientInit /\ BridgeInit /\ NoStore /\ ToolInit /\ RetrInit /\ LaterIdle("retr")

SpecRetr == InitRetr /\ [][RetrNext]_vars

\* Claim C24: run_async called without a query (the key missing, or its
\* value None or the empty string) returns {'error': 'No query provided',
\* 'results': []} and never queries the index; for every other input it
\* returns a mapping whose status is 'success' or 'error', and it never
\* raises.
C24_RunAsyncAlwaysReturnsMapping ==
    /\ rret.kind # "raise"
    /\ rpc = "done" =>
          /\ rret.kind = "dict"
          /\ IF Falsy(ArgsQuery(rargs))
             THEN rret.value = NoQueryProvided /\ rqueries = 0
             ELSE rret.value.status \in {"success", "error"}

C24_Witness ==
    /\ rpc = "done"
    /\ rargs.query.kind = "missing"
    /\ rhits # <<>>
    /\ rret.value = NoQueryProvided
    /\ rqueries = 0

InitSingleton == Init

SpecSingleton == InitSingleton /\ [][SingletonNext]_vars

InitTasks == Init

SpecTasks == InitTasks /\ [][TasksNext]_vars

\* Claim C25: get_fastmcp_client creates at most one PhoneShopFastMCPClient
\* in a process and every call returns that same instance, also when the
\* calls run at the same time on several threads.
C25_OneClientPerProcess ==
    /\ gmade <= 1
    /\ \A t, u \in Threads :
          gpc[t] = "done" /\ gpc[u] = "done" => gret[t] = gret[u]

\* What the code gives: every call returns a client that was constructed,
\* and no more clients are constructed than threads have passed line 122.
EveryCallReturnsSomeClient ==
    /\ \A t \in Threads : gpc[t] = "done" => gret[t] \in 1..gmade
    /\ gmade <= Cardinality({t \in Threads : gpc[t] \in {"return", "done"}})

\* Claim C26: in every reachable state of the shared client,
\* _connected = True implies client is not None, however calls of
\* ensure_connected, call_tool and list_tools interleave at their awaits.
C26_ConnectedImpliesClient == connected => client # None

\* A task alone on the handle keeps the implication.
ConnectedImpliesClientAlone ==
    (\A t \in Tasks : t # 1 => tasks[t].at = "idle") => (connected => client # None)

----------------------------------------------------------------------------
\* The keyword scan.

\* Claim C17: _fallback_text_search returns at most max_results entries over
\* all the documents it scans; every entry is flagged as low-confidence
\* (fallback true, relevance score 0.4); the text of an entry is the window
\* of the lines from two before to two after a line of its document that
\* contains a token of the query, without the whitespace at its ends; no
\* window comes twice for one document; and a query without tokens gives
\* the empty list.
C17_FallbackSearchContract ==
    (fpc = "done" /\ fcall[1] = "_fallback_text_search") =>
        /\ Len(fres) <= fmax
        /\ \A i \in DOMAIN fres :
              LET lines == fdocs[fres[i].document_type]
              IN  /\ fres[i].fallback = TRUE
                  /\ fres[i].relevance_score = "0.4"
                  /\ lines # Missing
                  /\ \E at \in DOMAIN lines :
                        /\ \E k \in DOMAIN Tokens(fquery) :
                              SubstringOf(Tokens(fquery)[k], LowerStr(lines[at]))
                        /\ fres[i].content =
                              StripLines([n \in 1..((IF at + 2 > Len(lines) THEN Len(lines) ELSE at + 2)
                                                     - (IF at < 3 THEN 1 ELSE at - 2) + 1) |->
                                             lines[n + (IF at < 3 THEN 1 ELSE at - 2) - 1]])
        /\ \A i, j \in DOMAIN fres :
              (i # j /\ fres[i].document_type = fres[j].document_type)
                  => fres[i].content # fres[j].content
        /\ (\A n \in DOMAIN fquery : fquery[n] = " ") => fres = <<>>

\* A scan of several documents that was cut to max_results = 2 entries, one
\* of them a window that is a part of its file.
C17_Witness ==
    /\ fpc = "done"
    /\ fcall = <<"_fallback_text_search">> \o AllDocumentTypes
    /\ fmax = 2
    /\ Len(fres) = 2
    /\ Len(ScanTypes(fdocs, Tokens(fquery), AllDocumentTypes, 1, fmax)) > 2
    /\ \E i \in DOMAIN fres :
          /\ Len(fres[i].content) >= 3
          /\ Len(fres[i].content) < Len(fdocs[fres[i].document_type])

\* A line of the file of document_type contains a token of the query.
FileHasToken(document_type) ==
    /\ fdocs[document_type] # Missing
    /\ \E at \in DOMAIN fdocs[document_type] :
          LineMatches(Tokens(fquery), fdocs[document_type][at])

\* Claim C14: when the similarity search of search_warranty_info,
\* search_replacement_info or search_customer_support_info returned no
\* result, the file of the document type has a line that contains a token
\* of the query (whatever the case) and max_results >= 1, the function
\* returns found = True with at least one result; and the keyword scan runs
\* only when the similarity search returned no result.
C14_FallbackActivation ==
    (fpc = "done" /\ fcall[1] = "search_info") =>
        /\ (/\ fcall[3] = "searched"
            /\ fvector = <<>>
            /\ FileHasToken(fcall[2])
            /\ fmax >= 1)
               => (sres.found = TRUE /\ Len(sres.info) >= 1 /\ sres.info = 
                      [i \in DOMAIN fres |-> fres[i].content])
        /\ fscanned => (fcall[3] = "searched" /\ fvector = <<>>)

\* The similarity search found nothing, the query "A" is in the file in
\* the other case, and the search function answers from the file.
C14_Witness ==
    /\ fpc = "done"
    /\ fcall = <<"search_info", "customer_support", "searched">>
    /\ fvector = <<>>
    /\ fquery = <<"A">>
    /\ fmax >= 1
    /\ fscanned
    /\ sres.found = TRUE
    /\ sres.info = << << <<"a">> >> >>

----------------------------------------------------------------------------
\* Claims about call_tool.

Malformed(r) == r.kind = "notext" \/ (r.kind = "text" /\ ~IsJsonObject(r.text))

C2_RetryExactlyOnce ==
    /\ attempts <= 2
    /\ (pc = "reconnect" => attempts = 1 /\ raised /\ client = None /\ ~connected)
    /\ (pc = "retry" => /\ attempts = 1
                        /\ raised
                        /\ connected
                        /\ client # None
                        /\ client > used[1])
    /\ (attempts = 2 => exc # "" /\ Len(used) = 2 /\ used[2] > used[1])
    /\ (pc = "done" /\ attempts = 1 /\ exc # "" => client = None /\ ~connected)
    /\ (pc = "done" /\ exc = "" => attempts <= 1)

C2_Witness ==
    /\ pc = "done"
    /\ attempts = 2
    /\ used[2] > used[1]
    /\ ~raised

C6_FailedCallDropsHandle ==
    (pc = "done" /\ attempts > 0 /\ raised) => (client = None /\ ~connected)

\* Claim C16: when the connection cannot be established at the start of
\* call_tool, the invocation returns {'error': 'Failed to connect to FastMCP
\* server'} without any tool-call attempt and leaves the handle dropped
\* (client = None, _connected = False); an invocation that finds the handle
\* dropped constructs a new Client, and only an invocation that has a
\* connection goes on to the tool call.
C16_ConnectFailureReturnsError ==
    [][pc = "connect" =>
          /\ ~connected' =>
                /\ pc' = "done"
                /\ ret' = Returned(Mapping1("error", <<"Failed to connect to FastMCP server">>))
                /\ attempts' = 0
                /\ client' = None
          /\ pc' = "first" => (connected' /\ client' # None /\ attempts' = 0)
          /\ (~connected \/ client = None) => made' = made + 1]_vars

\* The second invocation after a failed connection: it constructed a Client
\* of its own, could not connect either, and returned the error mapping.
C16_Witness ==
    /\ pc = "done"
    /\ calls = 2
    /\ made = 2
    /\ attempts = 0
    /\ client = None
    /\ ~connected
    /\ ret = Returned(Mapping1("error", <<"Failed to connect to FastMCP server">>))

----------------------------------------------------------------------------
\* Claims about the agent's tools (SpecTools).

DbTools ==
    {"get_phone_price", "get_phone_specs", "list_available_phones", "compare_phones",
     "search_phones_by_criteria", "get_current_offers", "check_phone_availability"}

IsText(v) == v \in Seq(STRING)

\* text contains the tokens of part, in a row
Contains(text, part) ==
    \E i \in 0..(Len(text) - Len(part)) : SubSeq(text, i + 1, i + Len(part)) = part

\* C7: each of the eleven agent tools returns a string whatever its
\* underlying operation did (no connection, a raising tool call, a timeout,
\* a malformed response, an index failure, an empty result); no exception
\* reaches the agent framework.
C7_ToolsReturnStrings ==
    tpc = "returned" =>
        /\ tname \in DbTools \cup PolicyTools
        /\ tout.kind = "return"
        /\ IsText(tout.value)

\* A database tool returned although the worker timed out, and a policy
\* tool although the index failed.
C7_Witness ==
    /\ tpc = "returned"
    /\ tout.kind = "return"
    /\ \/ tname = "list_available_phones" /\ tbridge = "late"
       \/ tname = "check_phone_availability" /\ tbridge = "nosubmit"

ApologyTokens ==
    {"I'm having trouble accessing warranty information right now.",
     "I'm having trouble accessing replacement policy information right now.",
     "I'm having trouble accessing customer support information right now",
     "I'm having trouble accessing policy information right now.",
     "I couldn't find specific warranty information for your query.",
     "I couldn't find specific replacement policy information for your query.",
     "I couldn't find specific customer support information for your query",
     "I couldn't find relevant policy information for your query.",
     "Sorry, I couldn't find a phone with the model name '"}

Apologetic(text) == HasToken(text, ApologyTokens)

SuggestsSupport(text) == HasToken(text, SupportTokens)

\* The prefixes of the error strings of the database tools and of the
\* synchronous wrappers under them.
BareErrorPrefixes ==
    ErrorTokens \cup
    {"Error retrieving price for '", "Error retrieving specifications for '",
     "Error retrieving phone list: ", "Error retrieving offers: ",
     "Error checking availability: "}

\* C8 as stated: whenever the operation behind an agent tool fails, the
\* returned string is an apology that suggests contacting human support,
\* for database tools and policy tools alike.
C8_FailureIsApologyWithSupport ==
    (tpc = "returned" /\ tfailed) =>
        /\ tout.kind = "return"
        /\ Apologetic(tout.value)
        /\ SuggestsSupport(tout.value)

\* C8, amended: when the operation behind a policy tool fails, the tool
\* returns an apology with a customer-service contact; when the operation
\* behind a database tool fails, the tool returns the error text "Error
\* <doing>: <cause>" (get_phone_price: "Sorry, I couldn't find a phone with
\* the model name '<name>'.") and no support contact.
C8_FailureStringByToolFamily ==
    (tpc = "returned" /\ tfailed) =>
        /\ tout.kind = "return"
        /\ tname \in PolicyTools =>
              Apologetic(tout.value) /\ SuggestsSupport(tout.value)
        /\ tname \in DbTools =>
              /\ ~SuggestsSupport(tout.value)
              /\ IF tname = "get_phone_price"
                 THEN tout.value[1] = "Sorry, I couldn't find a phone with the model name '"
                 ELSE tout.value[1] \in BareErrorPrefixes

\* A policy tool whose index failed and a database tool whose connection
\* could not be made have both returned.
C8_Witness ==
    /\ tpc = "returned"
    /\ tfailed
    /\ \/ tname = "get_warranty_information" /\ targ = <<"search_error">>
       \/ tname = "search_phones_by_criteria" /\ attempts = 0 /\ tbridge = "worker"

NotFoundStyleTokens ==
    {"' not found", "' not found.", "Sorry, I couldn't find a phone with the model name '"}

\* C10: for a phone name that matches no phone of the store, once the
\* server's answer has reached the formatter, get_phone_specs (that is
\* get_phone_details_sync) and get_phone_price return normally, with a
\* "not found" style message that names the requested phone.
C10_UnknownPhoneNotFound ==
    ( /\ tpc = "returned"
      /\ tname \in {"get_phone_specs", "get_phone_price"}
      /\ tdelivered
      /\ ~tfailed
      /\ MatchingRows(store, targ) = {} ) =>
        /\ tout.kind = "return"
        /\ HasToken(tout.value, NotFoundStyleTokens)
        /\ Contains(tout.value, targ)

\* Both phone tools have answered for a name the non-empty store lacks.
C10_Witness ==
    /\ tpc = "returned"
    /\ tname \in {"get_phone_specs", "get_phone_price"}
    /\ tdelivered
    /\ ~tfailed
    /\ store # <<>>
    /\ targ # <<>>
    /\ MatchingRows(store, targ) = {}
    /\ tout.kind = "return"

----------------------------------------------------------------------------
\* Claims about the server's compare_phones (SpecCompare).

\* The id of the row whose model name is exactly n.
RowNamed(n) == CHOOSE i \in DOMAIN store : store[i] = n

Present(n) == \E i \in DOMAIN store : store[i] = n

\* C11: for two phones that are both in the store, compare_phones(phone1,
\* phone2) returns a mapping whose summary.better_value is the model name
\* of the one with the lower price and whose summary.price_difference is
\* price(phone2) - price(phone1).
C11_BetterValueIsCheaper ==
    (cpc = "done" /\ Present(cPhone1) /\ Present(cPhone2)) =>
        /\ "summary" \in DOMAIN cOut
        /\ cOut.summary.price_difference =
              prices[RowNamed(cPhone2)] - prices[RowNamed(cPhone1)]
        /\ prices[RowNamed(cPhone1)] < prices[RowNamed(cPhone2)]
              => cOut.summary.better_value = cPhone1
        /\ prices[RowNamed(cPhone2)] < prices[RowNamed(cPhone1)]
              => cOut.summary.better_value = cPhone2

\* The summary is computed from the two rows the lookups returned: the
\* difference of their prices, and the name of the one that is not dearer.
CompareSummaryOfLookups ==
    (cpc = "done" /\ "summary" \in DOMAIN cOut) =>
        LET d1 == cOut.comparison.phone1
            d2 == cOut.comparison.phone2
        IN  /\ cOut.summary.price_difference = d2.price - d1.price
            /\ cOut.summary.better_value =
                  IF d1.price < d2.price THEN d1.model_name ELSE d2.model_name

----------------------------------------------------------------------------
\* Claims about _chunk_text (SpecChunk).

\* The positions of the text that the i-th and the j-th chunk both hold.
Shared(i, j) ==
    LET lo == IF chunks[i].lo > chunks[j].lo THEN chunks[i].lo ELSE chunks[j].lo
        hi == IF chunks[i].hi < chunks[j].hi THEN chunks[i].hi ELSE chunks[j].hi
    IN  IF hi > lo THEN hi - lo ELSE 0

InSomeChunk(p) == \E i \in DOMAIN chunks : chunks[i].lo <= p /\ p < chunks[i].hi

\* C12: the chunks of a text, in their order, hold every character of
\* every word of the text, and text is repeated only between two
\* consecutive chunks, over at most the overlap of 50 characters.
C12_ChunksRecoverText ==
    kpc = "done" =>
        /\ \A p \in 0..(ktext.len - 1) : p \notin ktext.spaces => InSomeChunk(p)
        /\ \A i \in DOMAIN chunks : \A j \in DOMAIN chunks :
              /\ i < j => chunks[i].lo <= chunks[j].lo
              /\ j = i + 1 => Shared(i, j) <= Overlap
              /\ j > i + 1 => Shared(i, j) = 0

\* A text of three chunks whose neighbours share the whole overlap.
C12_Witness ==
    /\ kpc = "done"
    /\ Len(chunks) = 3
    /\ Shared(1, 2) = Overlap
    /\ Shared(2, 3) = Overlap
    /\ ktext.spaces # {}

\* The last '.' of the window of chunk_size characters that starts at
\* start (-1 when it has none).
LastDot(w) == RFind(ktext, w.start, w.start + ChunkSize)

\* C18: for a text longer than chunk_size, every chunk has at most
\* chunk_size characters, each window starts exactly overlap characters
\* before the end of the one before, and a window that does not reach the
\* end of the text ends right after its last '.' when that '.' lies within
\* the last 100 characters of the window, and at start + chunk_size
\* otherwise.
C18_WindowsAndSentenceEnds ==
    (kpc = "done" /\ ktext.len > ChunkSize) =>
        /\ \A i \in DOMAIN chunks : chunks[i].hi - chunks[i].lo <= ChunkSize
        /\ \A i \in DOMAIN windows :
              i > 1 => windows[i].start = windows[i - 1].end - Overlap
        /\ \A i \in DOMAIN windows :
              windows[i].start + ChunkSize < ktext.len =>
                  windows[i].end =
                      IF LastDot(windows[i]) >= windows[i].start + ChunkSize - SentenceTail
                      THEN LastDot(windows[i]) + 1
                      ELSE windows[i].start + ChunkSize

\* What the test of line 70 does: the '.' counts when it lies within the
\* last 99 characters of the window.
WindowEndsByLine70 ==
    (kpc = "done" /\ ktext.len > ChunkSize) =>
        \A i \in DOMAIN windows :
            windows[i].start + ChunkSize < ktext.len =>
                windows[i].end =
                    IF LastDot(windows[i]) > windows[i].start + ChunkSize - SentenceTail
                    THEN LastDot(windows[i]) + 1
                    ELSE windows[i].start + ChunkSize

\* The slice chunk of the text holds a character that is not whitespace.
HasWord(chunk) == \E p \in chunk.lo..(chunk.hi - 1) : p \notin ktext.spaces

\* Claim C29: _chunk_text never returns an empty or whitespace-only chunk,
\* for every text, the empty text and the texts of at most chunk_size
\* characters included.
C29_NoBlankChunk ==
    kpc = "done" => \A i \in DOMAIN chunks : HasWord(chunks[i])

\* What the code does: the chunks of a text longer than chunk_size are
\* stripped and kept only when not empty; a shorter text is returned as it
\* is, as its only chunk.
BlankChunkOnlyOfShortText ==
    kpc = "done" =>
        IF ktext.len > ChunkSize
        THEN \A i \in DOMAIN chunks : HasWord(chunks[i])
        ELSE chunks = <<[lo |-> 0, hi |-> ktext.len]>>

----------------------------------------------------------------------------
\* Claims about add_document (SpecStore) and about the loads of the index
\* (SpecIndex).

\* C13: add_document called twice with the same content and the same source
\* makes the same list of chunk ids both times, and leaves the collection
\* with as many entries after the second call as after the first.
C13_ReAddIsIdempotent ==
    \A i \in DOMAIN adds : \A j \in DOMAIN adds :
        (i < j /\ adds[i].content = adds[j].content /\ adds[i].source = adds[j].source) =>
            /\ adds[j].ids = adds[i].ids
            /\ j = i + 1 => adds[j].count = adds[i].count

\* A document of two chunks was added twice in a row.
C13_Witness ==
    /\ Len(adds) >= 2
    /\ adds[1].content = adds[2].content
    /\ adds[1].source = adds[2].source
    /\ Len(adds[1].ids) = 2
    /\ adds[2].count = 2

\* C19: the chunks of two loads are never side by side in one collection:
\* the initialisation of PolicyRetrievalTool loads only into a collection of
\* zero entries, and the reload of the setup script deletes the collection
\* and makes a new one before it loads.
C19_OneLoadPerCollection ==
    \A e1 \in collection : \A e2 \in collection : e1.load = e2.load

====
